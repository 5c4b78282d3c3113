---------------------------- MODULE AuthSessions ----------------------------
(***************************************************************************)
(* The sessions of one account (services/auth.ts, routes/auth.ts and       *)
(* updateUserAccess of routes/admin.ts): login, refresh with rotation,     *)
(* logout, password change and reset, revocation of access.  Accounts      *)
(* share nothing, for every statement selects by the user or by a token    *)
(* the user was given.                                                     *)
(*                                                                         *)
(* A request is a handler of the server, and one action is what it does    *)
(* between two awaits of the database; what it read is in its locals.  No  *)
(* handler runs in a transaction, but for the two updates that say so.     *)
(*                                                                         *)
(* A refresh token is a JWT over the user and the second it was signed in, *)
(* so it is modelled by that second: two tokens of one second are equal.   *)
(***************************************************************************)
EXTENDS Naturals, FiniteSets

CONSTANTS
  Handlers,        \* requests the server works on at once
  Browsers,        \* cookie jars of the account's user, each with many tabs
  Links,           \* password reset tokens
  None,            \* no cookie
  Ttl,             \* refreshExpiresIn, in seconds
  MaxNow, MaxSessions, MaxPassword, MaxCrashes   \* bounds

ASSUME AuthAssumption ==
  /\ {Ttl, MaxNow, MaxSessions, MaxPassword, MaxCrashes} \subseteq Nat
  /\ None \notin Nat /\ None \notin Links /\ None \notin Browsers

VARIABLES
  now,        \* Date.now(), in seconds
  password,   \* how often the password was replaced
  revoked,    \* accessRevokedAt is set
  sessions,   \* Session rows, each with the login it descends from (fam), the
              \* password of that login, and whether its creation was raced
  links,      \* PasswordResetToken, by id: "none", "unused" or "used"
  cookie,     \* the refresh cookie of each browser
  handlers,   \* the handlers' progress and locals
  made,       \* sessions ever created: the last id
  abandoned,  \* a crash came between a new password and the purge
  crashes

vars == <<now, password, revoked, sessions, links, cookie, handlers, made,
          abandoned, crashes>>

Ops  == {"login", "refresh", "logout", "logoutAll", "change", "reset", "forgot"}
Idle == [op |-> "none", at |-> "idle", browser |-> None, token |-> None, sid |-> 0,
         fam |-> 0, pw |-> 0, link |-> None, raced |-> FALSE]

Init ==
  /\ now = 0 /\ password = 0 /\ revoked = FALSE
  /\ sessions = {} /\ made = 0
  /\ links = [l \in Links |-> "none"]
  /\ cookie = [b \in Browsers |-> None]
  /\ handlers = [h \in Handlers |-> Idle]
  /\ abandoned = FALSE /\ crashes = 0

At(h, place, ops) == handlers[h].at = place /\ handlers[h].op \in ops
Goto(h, place)    == handlers' = [handlers EXCEPT ![h].at = place]
Stop(h)           == handlers' = [handlers EXCEPT ![h] = Idle]
\* The answer takes the cookie away.
Clear(h)          == handlers' = [handlers EXCEPT ![h].at = "answer", ![h].token = None]

-----------------------------------------------------------------------------
(* Requests *)

\* Sessions that handlers at work may still create.
Coming == {h \in Handlers : handlers[h].op \in {"login", "refresh"} /\ handlers[h].at # "answer"}

\* The family of a cookie: what a logout is meant to end.
FamilyOf(token) == IF \E s \in sessions : s.token = token
                   THEN (CHOOSE s \in sessions : s.token = token).fam ELSE 0

\* A tab sends a request; the browser attaches its cookie.  The user knows the
\* password in force, and logs out or refreshes only when there is a cookie.
Send(h, b, op) ==
  /\ handlers[h].at = "idle"
  /\ op \in Ops \ {"reset"}
  /\ op \in {"refresh", "logout"} => cookie[b] # None
  /\ op \in {"login", "refresh"} => made + Cardinality(Coming) < MaxSessions
  /\ handlers' = [handlers EXCEPT ![h] = [Idle EXCEPT !.op = op, !.at = "sent", !.browser = b,
       !.token = cookie[b], !.pw = password,
       !.fam = IF op = "logout" THEN FamilyOf(cookie[b]) ELSE 0]]
  /\ UNCHANGED <<now, password, revoked, sessions, links, cookie, made, abandoned, crashes>>

SendReset(h, b, l) ==
  /\ handlers[h].at = "idle" /\ links[l] = "unused"
  /\ handlers' = [handlers EXCEPT ![h] = [Idle EXCEPT !.op = "reset", !.at = "sent",
       !.browser = b, !.link = l]]
  /\ UNCHANGED <<now, password, revoked, sessions, links, cookie, made, abandoned, crashes>>

\* The answer reaches the browser, or is lost with the connection.
Deliver(h) ==
  /\ handlers[h].at = "answer"
  /\ \/ cookie' = [cookie EXCEPT ![handlers[h].browser] = handlers[h].token]
     \/ UNCHANGED cookie
  /\ Stop(h)
  /\ UNCHANGED <<now, password, revoked, sessions, links, made, abandoned, crashes>>

-----------------------------------------------------------------------------
(* POST /login and POST /refresh *)

\* Variant: a login inserts its session without createSession's first half.
LoginAtOnce(h) ==
  /\ At(h, "sent", {"login"})
  /\ IF handlers[h].pw # password THEN Stop(h)
     ELSE Goto(h, IF revoked THEN "purge" ELSE "create")
  /\ UNCHANGED <<now, password, revoked, sessions, links, cookie, made, abandoned, crashes>>

\* A wrong password is answered with 401; an account whose access is revoked
\* loses its sessions.
LoginCheck(h) ==
  /\ At(h, "sent", {"login"})
  /\ IF handlers[h].pw # password THEN Stop(h)
     ELSE Goto(h, IF revoked THEN "purge" ELSE "assert")
  /\ UNCHANGED <<now, password, revoked, sessions, links, cookie, made, abandoned, crashes>>

\* The session found by its token, unless it has expired.
Found(h) == {s \in sessions : s.token = handlers[h].token /\ now <= s.token + Ttl}

RefreshFind(h) ==
  /\ At(h, "sent", {"refresh"})
  /\ \/ Found(h) = {} /\ Clear(h)
     \/ \E s \in Found(h) : handlers' = [handlers EXCEPT
          ![h].at = IF revoked THEN "purge" ELSE "rotate",
          ![h].sid = s.id, ![h].fam = s.fam, ![h].pw = s.pw, ![h].raced = s.raced]
  /\ UNCHANGED <<now, password, revoked, sessions, links, cookie, made, abandoned, crashes>>

\* Variant: the deletion of a row that is gone goes unnoticed.
RotateMany(h) ==
  /\ At(h, "rotate", {"refresh"})
  /\ sessions' = {s \in sessions : s.id # handlers[h].sid}
  /\ Goto(h, "assert")
  /\ UNCHANGED <<now, password, revoked, links, cookie, made, abandoned, crashes>>

\* session.delete throws when the row is gone, and the refresh fails.
Rotate(h) ==
  LET old == {s \in sessions : s.id = handlers[h].sid} IN
  /\ At(h, "rotate", {"refresh"})
  /\ sessions' = sessions \ old
  /\ IF old = {} THEN Clear(h) ELSE Goto(h, "assert")
  /\ UNCHANGED <<now, password, revoked, links, cookie, made, abandoned, crashes>>

\* A session that cannot be created fails the request: a refresh clears the
\* cookie, a login leaves it alone.
Fail(h) == IF handlers[h].op = "refresh" THEN Clear(h) ELSE Stop(h)

\* Variant: createSession does not ask whether access is active.
SignAnyway(h) ==
  /\ At(h, "assert", {"login", "refresh"})
  /\ handlers' = [handlers EXCEPT ![h].at = "create", ![h].token = now]
  /\ UNCHANGED <<now, password, revoked, sessions, links, cookie, made, abandoned, crashes>>

\* createSession, up to the insert: assertUserAccessActive, and the tokens.
Sign(h) ==
  /\ At(h, "assert", {"login", "refresh"})
  /\ IF revoked THEN Fail(h)
     ELSE handlers' = [handlers EXCEPT ![h].at = "create", ![h].token = now]
  /\ UNCHANGED <<now, password, revoked, sessions, links, cookie, made, abandoned, crashes>>

\* The session of a login founds a family; the token is unique in the table.
Row(h) == [id |-> made + 1, token |-> handlers[h].token, pw |-> handlers[h].pw,
           fam |-> IF handlers[h].op = "login" THEN made + 1 ELSE handlers[h].fam,
           raced |-> handlers[h].raced]
Taken(h) == \E s \in sessions : s.token = handlers[h].token

Create(h) ==
  /\ At(h, "create", {"login", "refresh"})
  /\ \/ /\ Taken(h) /\ Fail(h)
        /\ UNCHANGED <<sessions, made>>
     \/ /\ ~ Taken(h) /\ Goto(h, "answer")
        /\ sessions' = sessions \cup {Row(h)} /\ made' = made + 1
  /\ UNCHANGED <<now, password, revoked, links, cookie, abandoned, crashes>>

-----------------------------------------------------------------------------
(* POST /logout, POST /logout-all, PUT /change-password *)

\* The middleware looks at accessRevokedAt; the change asks for the password.
Authenticate(h) ==
  /\ At(h, "sent", {"logout", "logoutAll", "change"})
  /\ IF revoked \/ (handlers[h].op = "change" /\ handlers[h].pw # password) THEN Stop(h)
     ELSE \/ handlers[h].op = "logout" /\ Goto(h, "drop")
          \/ handlers[h].op = "logoutAll" /\ Goto(h, "purge")
          \/ handlers[h].op = "change" /\ Goto(h, "apply")
  /\ UNCHANGED <<now, password, revoked, sessions, links, cookie, made, abandoned, crashes>>

\* invalidateSession
Drop(h) ==
  /\ At(h, "drop", {"logout"})
  /\ sessions' = {s \in sessions : s.token # handlers[h].token}
  /\ Clear(h)
  /\ UNCHANGED <<now, password, revoked, links, cookie, made, abandoned, crashes>>

-----------------------------------------------------------------------------
(* POST /forgot-password, POST /reset-password *)

ForgotRetire(h) ==
  /\ At(h, "sent", {"forgot"})
  /\ links' = [l \in Links |-> IF links[l] = "unused" THEN "used" ELSE links[l]]
  /\ Goto(h, "link")
  /\ UNCHANGED <<now, password, revoked, sessions, cookie, made, abandoned, crashes>>

ForgotCreate(h, l) ==
  /\ At(h, "link", {"forgot"}) /\ links[l] = "none"
  /\ links' = [links EXCEPT ![l] = "unused"]
  /\ Stop(h)
  /\ UNCHANGED <<now, password, revoked, sessions, cookie, made, abandoned, crashes>>

ResetCheck(h) ==
  /\ At(h, "sent", {"reset"})
  /\ IF links[handlers[h].link] = "unused" THEN Goto(h, "apply") ELSE Stop(h)
  /\ UNCHANGED <<now, password, revoked, sessions, links, cookie, made, abandoned, crashes>>

\* The new password, together with the link in a transaction if it is a reset.
Apply(h) ==
  /\ At(h, "apply", {"change", "reset"})
  /\ password < MaxPassword
  /\ password' = password + 1
  /\ links' = IF handlers[h].op = "reset" THEN [links EXCEPT ![handlers[h].link] = "used"]
              ELSE links
  /\ Goto(h, "purge")
  /\ UNCHANGED <<now, revoked, sessions, cookie, made, abandoned, crashes>>

-----------------------------------------------------------------------------
(* invalidateAllSessions, and the revocation of access *)

\* Handlers on their way to a session that no deletion of rows can stop.
Late(place) == {g \in Handlers : At(g, place, {"login", "refresh"})}

\* The handlers after the deletion that hits those that are late.
Race(late) == [g \in Handlers |-> IF g \in late THEN [handlers[g] EXCEPT !.raced = TRUE]
                                  ELSE handlers[g]]

Purge(h) ==
  /\ handlers[h].at = "purge"
  /\ sessions' = {}
  /\ handlers' = [Race(Late("assert") \cup Late("create")) EXCEPT
       ![h] = IF handlers[h].op \in {"refresh", "change", "logoutAll"}
              THEN [handlers[h] EXCEPT !.at = "answer", !.token = None] ELSE Idle]
  /\ UNCHANGED <<now, password, revoked, links, cookie, made, abandoned, crashes>>

\* One transaction; a handler that has yet to ask will find access revoked.
RevokeAccess ==
  /\ revoked' = TRUE /\ sessions' = {}
  /\ handlers' = Race(Late("create"))
  /\ UNCHANGED <<now, password, links, cookie, made, abandoned, crashes>>

RestoreAccess ==
  /\ revoked /\ revoked' = FALSE
  /\ UNCHANGED <<now, password, sessions, links, cookie, handlers, made, abandoned, crashes>>

-----------------------------------------------------------------------------
Tick ==
  /\ now < MaxNow /\ now' = now + 1
  /\ UNCHANGED <<password, revoked, sessions, links, cookie, handlers, made, abandoned, crashes>>

PurgePending == \E h \in Handlers : At(h, "purge", {"change", "reset"})

\* A restart ends every handler; answers already sent are on their way.
Crash ==
  /\ crashes < MaxCrashes /\ crashes' = crashes + 1
  /\ handlers' = [h \in Handlers |-> IF handlers[h].at = "answer" THEN handlers[h] ELSE Idle]
  /\ abandoned' = (abandoned \/ PurgePending)
  /\ UNCHANGED <<now, password, revoked, sessions, links, cookie, made>>

BrowserStep == \E h \in Handlers, b \in Browsers :
  \/ \E op \in Ops : Send(h, b, op)
  \/ \E l \in Links : SendReset(h, b, l)
SessionStep(h)  == LoginCheck(h) \/ RefreshFind(h) \/ Rotate(h) \/ Sign(h) \/ Create(h)
AccountStep(h)  == Authenticate(h) \/ Drop(h) \/ ForgotRetire(h) \/ ResetCheck(h) \/ Apply(h)
                   \/ \E l \in Links : ForgotCreate(h, l)

Next ==
  \/ BrowserStep
  \/ \E h \in Handlers : SessionStep(h) \/ AccountStep(h) \/ Purge(h) \/ Deliver(h)
  \/ RevokeAccess \/ RestoreAccess \/ Tick \/ Crash

Spec == Init /\ [][Next]_vars

-----------------------------------------------------------------------------
(* Properties *)

Tokens == Nat \cup {None}
Places == {"idle", "sent", "rotate", "assert", "create", "drop", "link", "apply", "purge", "answer"}
SessionRows == [id : Nat, token : Nat, pw : Nat, fam : Nat, raced : BOOLEAN]
Locals == [op : Ops \cup {"none"}, at : Places, browser : Browsers \cup {None}, token : Tokens,
           sid : Nat, fam : Nat, pw : Nat, link : Links \cup {None}, raced : BOOLEAN]

StateTyped ==
  /\ now \in Nat /\ password \in Nat /\ made \in Nat /\ crashes \in Nat
  /\ revoked \in BOOLEAN /\ abandoned \in BOOLEAN
  /\ sessions \subseteq SessionRows
  /\ links \in [Links -> {"none", "unused", "used"}]
  /\ cookie \in [Browsers -> Tokens]
HandlersTyped ==
  /\ handlers \in [Handlers -> Locals]
  /\ \A h \in Handlers :
       /\ handlers[h].at = "create" => handlers[h].token # None
       /\ handlers[h].at # "idle" => handlers[h].browser # None
       /\ handlers[h].op = "reset" => handlers[h].link # None

\* The types; a token about to be stored was signed, a handler at work has a
\* browser to answer, and a reset has its link.
TypeOK == StateTyped /\ HandlersTyped

\* A refresh that deleted the old session and has not created the new one.
Rotating(h) == handlers[h].at \in {"assert", "create"} /\ handlers[h].op = "refresh"

\* However many tabs refresh at once, a login keeps at most one session: a
\* family has one row, or one refresh between its delete and its create, and
\* never both (refreshSession).
RotationIsLinear ==
  /\ \A s, t \in sessions : s.fam = t.fam => s = t
  /\ \A h \in Handlers, s \in sessions : Rotating(h) => s.fam # handlers[h].fam
  /\ \A g, h \in Handlers :
       Rotating(g) /\ Rotating(h) /\ handlers[g].fam = handlers[h].fam => g = h

\* A session that goes back to a replaced password is about to be purged, or
\* was created across the purge, or the server crashed before the purge
\* (reset-password, change-password).
OldPasswordOnlyByOverlap ==
  \A s \in sessions : s.pw # password => s.raced \/ PurgePending \/ abandoned

\* While access is revoked, only a session whose creation overlapped the
\* revocation exists (updateUserAccess, createSession).
RevokedOnlyByOverlap == revoked => \A s \in sessions : s.raced
=============================================================================
