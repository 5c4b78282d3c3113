----------------------------- MODULE AuthProofs -----------------------------
(***************************************************************************)
(* Authentication at its two ends.                                         *)
(*                                                                         *)
(* The server, for every number of requests, browsers and sessions: types, *)
(* rotation keeps one session per login, and what can survive a purge.     *)
(*                                                                         *)
(* The tab, for every number of page requests and tokens: types, nobody    *)
(* waits for a silent refresh that is not under way, and no operation that *)
(* a sign-out overtook signs the user in again.                            *)
(*                                                                         *)
(* And that the waiting ends, from the fairness each step of it rests on.  *)
(***************************************************************************)
EXTENDS AuthSessions, AuthClient, TLAPS

-----------------------------------------------------------------------------
(* The server *)

\* Rows and families are numbered by made, and an id names one row.
RowsOK ==
  /\ \A s \in sessions : s.id <= made /\ s.fam <= made
  /\ \A s, t \in sessions : s.id = t.id => s = t

\* What a handler with locals x holds on its way to a session: the row it
\* found, if that is still there; the family it goes on with; the reason why it
\* may hold an old password, or go on although access is revoked.
Holds(x) ==
  /\ x.at = "rotate" =>
       /\ x.op = "refresh" /\ x.sid <= made
       /\ x.fam <= made
       /\ \A s \in sessions : s.id = x.sid => s.fam = x.fam /\ s.pw = x.pw /\ s.raced = x.raced
  /\ x.at \in {"assert", "create"} =>
       /\ x.op \in {"login", "refresh"}
       /\ x.op = "refresh" => x.fam <= made
       /\ x.pw # password => x.raced \/ PurgePending \/ abandoned
  /\ x.at = "create" /\ revoked => x.raced
HandlersOK == \A h \in Handlers : Holds(handlers[h])

Safe == RowsOK /\ HandlersOK /\ RotationIsLinear /\ OldPasswordOnlyByOverlap /\ RevokedOnlyByOverlap

(***************************************************************************)
(* Types.                                                                  *)
(***************************************************************************)
Becomes(h, x) == handlers' = [handlers EXCEPT ![h] = x]

LEMMA IdleType ==
  /\ Idle \in Locals /\ Idle.at = "idle" /\ Idle.op = "none"
  /\ Idle.sid = 0 /\ Idle.link = None /\ Idle.browser = None
<1>1. Idle \in Locals
  BY DEF Idle, Locals, Places, Ops, Tokens
<1>2. QED BY <1>1 DEF Idle

\* One handler gets new locals.
LEMMA HandlerSet ==
  ASSUME HandlersTyped, NEW h \in Handlers, NEW x \in Locals,
         x.at = "create" => x.token # None,
         x.at # "idle" => x.browser # None,
         x.op = "reset" => x.link # None,
         Becomes(h, x)
  PROVE  HandlersTyped'
BY DEF HandlersTyped, Becomes

\* The shapes in which the actions move a handler.
LEMMA Moves ==
  ASSUME HandlersTyped, NEW h \in Handlers, NEW place \in Places, Goto(h, place)
  PROVE  \E x \in Locals : /\ x = [handlers[h] EXCEPT !.at = place]
                           /\ Becomes(h, x)
BY DEF HandlersTyped, Goto, Becomes, Locals

LEMMA GotoType ==
  ASSUME HandlersTyped, NEW h \in Handlers, NEW place \in Places, Goto(h, place),
         handlers[h].at # "idle", place # "create" \/ handlers[h].token # None
  PROVE  HandlersTyped'
<1>1. PICK x \in Locals : x = [handlers[h] EXCEPT !.at = place] /\ Becomes(h, x)
  BY Moves
<1>2. handlers[h] \in Locals
  BY DEF HandlersTyped
<1>3. /\ x.at = place /\ x.token = handlers[h].token /\ x.browser = handlers[h].browser
      /\ x.op = handlers[h].op /\ x.link = handlers[h].link
  BY <1>1, <1>2 DEF Locals
<1>4. QED BY <1>1, <1>3, HandlerSet DEF HandlersTyped

LEMMA StopType ==
  ASSUME HandlersTyped, NEW h \in Handlers, Stop(h)
  PROVE  HandlersTyped'
BY IdleType, HandlerSet DEF Stop, Becomes

LEMMA ClearType ==
  ASSUME HandlersTyped, NEW h \in Handlers, Clear(h), handlers[h].at # "idle"
  PROVE  HandlersTyped'
<1> DEFINE x == [handlers[h] EXCEPT !.at = "answer", !.token = None]
<1>1. handlers[h] \in Locals
  BY DEF HandlersTyped
<1>2. /\ x \in Locals /\ x.at = "answer" /\ x.browser = handlers[h].browser
      /\ x.op = handlers[h].op /\ x.link = handlers[h].link
  BY <1>1 DEF Locals, Places, Tokens
<1>3. Becomes(h, x)
  BY <1>1 DEF Clear, Becomes
<1> HIDE DEF x
<1>4. QED BY <1>2, <1>3, HandlerSet DEF HandlersTyped
\* Taking note of a race changes no handler otherwise.
LEMMA RaceType ==
  ASSUME HandlersTyped, NEW late \in SUBSET Handlers
  PROVE  /\ Race(late) \in [Handlers -> Locals]
         /\ \A g \in Handlers :
              /\ Race(late)[g].at = handlers[g].at /\ Race(late)[g].op = handlers[g].op
              /\ Race(late)[g].token = handlers[g].token /\ Race(late)[g].link = handlers[g].link
              /\ Race(late)[g].browser = handlers[g].browser
              /\ Race(late)[g].sid = handlers[g].sid /\ Race(late)[g].fam = handlers[g].fam
              /\ Race(late)[g].pw = handlers[g].pw
              /\ handlers[g].raced \/ g \in late => Race(late)[g].raced
<1> SUFFICES ASSUME NEW g \in Handlers
             PROVE  /\ Race(late)[g] \in Locals
                    /\ Race(late)[g].at = handlers[g].at /\ Race(late)[g].op = handlers[g].op
                    /\ Race(late)[g].token = handlers[g].token /\ Race(late)[g].link = handlers[g].link
                    /\ Race(late)[g].browser = handlers[g].browser
                    /\ Race(late)[g].sid = handlers[g].sid /\ Race(late)[g].fam = handlers[g].fam
                    /\ Race(late)[g].pw = handlers[g].pw
                    /\ handlers[g].raced \/ g \in late => Race(late)[g].raced
  BY DEF Race
<1> DEFINE x == handlers[g]
           y == [x EXCEPT !.raced = TRUE]
<1>1. x \in Locals
  BY DEF HandlersTyped
<1>2. /\ y \in Locals /\ y.at = x.at /\ y.op = x.op /\ y.token = x.token /\ y.link = x.link
      /\ y.browser = x.browser /\ y.sid = x.sid /\ y.fam = x.fam /\ y.pw = x.pw /\ y.raced
  BY <1>1 DEF Locals
<1>3. Race(late)[g] = IF g \in late THEN y ELSE x
  BY DEF Race
<1>4. x.raced \in BOOLEAN
  BY <1>1 DEF Locals
<1> HIDE DEF x, y
<1>5. CASE g \in late BY <1>2, <1>3, <1>5 DEF x
<1>6. CASE g \notin late BY <1>1, <1>3, <1>4, <1>6 DEF x
<1>7. QED BY <1>5, <1>6

LEMMA InitType == Init => TypeOK
<1> SUFFICES ASSUME Init PROVE TypeOK
  OBVIOUS
<1>1. StateTyped
  BY DEF Init, StateTyped, Tokens
<1>2. HandlersTyped
  BY IdleType DEF Init, HandlersTyped
<1>3. QED BY <1>1, <1>2 DEF TypeOK

LEMMA SendType ==
  ASSUME TypeOK, NEW h \in Handlers, NEW b \in Browsers,
         \/ \E op \in Ops : Send(h, b, op)
         \/ \E l \in Links : SendReset(h, b, l)
  PROVE  TypeOK'
<1>0. StateTyped'
  BY DEF Send, SendReset, TypeOK, StateTyped
<1>1. ASSUME NEW op \in Ops, Send(h, b, op) PROVE HandlersTyped'
  <2> DEFINE f == IF op = "logout" THEN FamilyOf(cookie[b]) ELSE 0
  <2> DEFINE x == [Idle EXCEPT !.op = op, !.at = "sent", !.browser = b, !.token = cookie[b],
                               !.pw = password, !.fam = f]
  <2>1. f \in Nat
    BY DEF FamilyOf, TypeOK, StateTyped, SessionRows
  <2>2. Becomes(h, x)
    BY <1>1 DEF Send, Becomes
  <2>3. cookie[b] \in Tokens /\ password \in Nat
    BY DEF TypeOK, StateTyped
  <2> HIDE DEF f
  <2>4. /\ x \in Locals /\ x.at = "sent" /\ x.browser = b /\ x.op = op
    BY <2>1, <2>3, IdleType DEF Locals, Places
  <2> HIDE DEF x
  <2>5. op # "reset" /\ b # None
    BY <1>1, AuthAssumption DEF Send
  <2>6. QED BY <2>2, <2>4, <2>5, HandlerSet DEF TypeOK
<1>2. ASSUME NEW l \in Links, SendReset(h, b, l) PROVE HandlersTyped'
  <2> DEFINE x == [Idle EXCEPT !.op = "reset", !.at = "sent", !.browser = b, !.link = l]
  <2>1. Becomes(h, x)
    BY <1>2 DEF SendReset, Becomes
  <2>2. /\ x \in Locals /\ x.at = "sent" /\ x.browser = b /\ x.link = l
    BY IdleType DEF Locals, Places, Ops
  <2> HIDE DEF x
  <2>3. l # None /\ b # None
    BY AuthAssumption
  <2>4. QED BY <2>1, <2>2, <2>3, HandlerSet DEF TypeOK
<1>3. QED BY <1>0, <1>1, <1>2 DEF TypeOK

LEMMA SessionStepType ==
  ASSUME TypeOK, NEW h \in Handlers, SessionStep(h)
  PROVE  TypeOK'
<1> USE DEF TypeOK
<1>0. handlers[h] \in Locals
  BY DEF HandlersTyped
<1>1. CASE LoginCheck(h)
  <2>1. HandlersTyped'
    BY <1>1, GotoType, StopType DEF LoginCheck, At, Places
  <2>2. QED BY <1>1, <2>1 DEF LoginCheck, StateTyped
<1>2. CASE RefreshFind(h)
  <2>1. ASSUME NEW s \in Found(h), handlers' = [handlers EXCEPT
               ![h].at = IF revoked THEN "purge" ELSE "rotate",
               ![h].sid = s.id, ![h].fam = s.fam, ![h].pw = s.pw, ![h].raced = s.raced]
        PROVE  HandlersTyped'
    <3> DEFINE p == IF revoked THEN "purge" ELSE "rotate"
    <3> DEFINE x == [handlers[h] EXCEPT !.at = p, !.sid = s.id, !.fam = s.fam,
                                        !.pw = s.pw, !.raced = s.raced]
    <3>1. s \in SessionRows
      BY DEF Found, StateTyped
    <3>2. p \in Places \ {"create"}
      BY DEF Places
    <3>3. Becomes(h, x)
      BY <1>0, <2>1 DEF Becomes, Locals
    <3> HIDE DEF p
    <3>4. /\ x \in Locals /\ x.at = p /\ x.browser = handlers[h].browser
          /\ x.op = handlers[h].op /\ x.link = handlers[h].link
      BY <1>0, <3>1, <3>2 DEF Locals, SessionRows
    <3> HIDE DEF x
    <3>5. QED BY <1>2, <3>2, <3>3, <3>4, HandlerSet DEF RefreshFind, At, HandlersTyped
  <2>2. HandlersTyped'
    BY <1>2, <2>1, ClearType DEF RefreshFind, At
  <2>3. QED BY <1>2, <2>2 DEF RefreshFind, StateTyped
<1>3. CASE Rotate(h)
  <2>1. HandlersTyped'
    BY <1>3, GotoType, ClearType DEF Rotate, At, Places
  <2>2. QED BY <1>3, <2>1 DEF Rotate, StateTyped
<1>4. CASE Sign(h)
  <2>1. ASSUME handlers' = [handlers EXCEPT ![h].at = "create", ![h].token = now]
        PROVE  HandlersTyped'
    <3> DEFINE x == [handlers[h] EXCEPT !.at = "create", !.token = now]
    <3>1. now \in Nat /\ now # None
      BY AuthAssumption DEF StateTyped
    <3>2. Becomes(h, x)
      BY <1>0, <2>1 DEF Becomes, Locals
    <3>3. /\ x \in Locals /\ x.token = now /\ x.browser = handlers[h].browser
          /\ x.op = handlers[h].op /\ x.link = handlers[h].link
      BY <1>0, <3>1 DEF Locals, Places, Tokens
    <3> HIDE DEF x
    <3>4. QED BY <1>4, <3>1, <3>2, <3>3, HandlerSet DEF Sign, At, HandlersTyped
  <2>2. HandlersTyped'
    BY <1>4, <2>1, ClearType, StopType DEF Sign, At, Fail
  <2>3. QED BY <1>4, <2>2 DEF Sign, StateTyped
<1>5. CASE Create(h)
  <2>1. HandlersTyped'
    BY <1>5, GotoType, ClearType, StopType DEF Create, At, Fail, Places
  <2>2. Row(h) \in SessionRows
    <3>1. handlers[h].token \in Nat
      BY <1>0, <1>5 DEF HandlersTyped, Create, At, Locals, Tokens
    <3>2. QED BY <1>0, <3>1 DEF Row, SessionRows, Locals, StateTyped
  <2>3. QED BY <1>5, <2>1, <2>2 DEF Create, StateTyped
<1>6. QED BY <1>1, <1>2, <1>3, <1>4, <1>5 DEF SessionStep

LEMMA AccountStepType ==
  ASSUME TypeOK, NEW h \in Handlers, AccountStep(h)
  PROVE  TypeOK'
<1> USE DEF TypeOK
<1>1. CASE Authenticate(h)
  <2>1. \/ Stop(h)
        \/ \E place \in {"drop", "purge", "apply"} : Goto(h, place)
    BY <1>1 DEF Authenticate, At
  <2>2. HandlersTyped'
    BY <1>1, <2>1, GotoType, StopType DEF Authenticate, At, Places
  <2>3. QED BY <1>1, <2>2 DEF Authenticate, StateTyped
<1>2. CASE Drop(h)
  <2>1. HandlersTyped'
    BY <1>2, ClearType DEF Drop, At
  <2>2. QED BY <1>2, <2>1 DEF Drop, StateTyped
<1>3. CASE ForgotRetire(h)
  <2>1. HandlersTyped'
    BY <1>3, GotoType DEF ForgotRetire, At, Places
  <2>2. QED BY <1>3, <2>1 DEF ForgotRetire, StateTyped
<1>4. CASE ResetCheck(h)
  <2>1. HandlersTyped'
    BY <1>4, GotoType, StopType DEF ResetCheck, At, Places
  <2>2. QED BY <1>4, <2>1 DEF ResetCheck, StateTyped
<1>5. CASE Apply(h)
  <2>1. HandlersTyped'
    BY <1>5, GotoType DEF Apply, At, Places
  <2>2. links' \in [Links -> {"none", "unused", "used"}]
    BY <1>5 DEF Apply, StateTyped
  <2>3. password' \in Nat
    BY <1>5 DEF Apply, StateTyped
  <2>4. QED BY <1>5, <2>1, <2>2, <2>3 DEF Apply, StateTyped
<1>6. ASSUME NEW l \in Links, ForgotCreate(h, l) PROVE TypeOK'
  <2>1. HandlersTyped'
    BY <1>6, StopType DEF ForgotCreate
  <2>2. QED BY <1>6, <2>1 DEF ForgotCreate, StateTyped
<1>7. QED BY <1>1, <1>2, <1>3, <1>4, <1>5, <1>6 DEF AccountStep

LEMMA DeliverType ==
  ASSUME TypeOK, NEW h \in Handlers, Deliver(h)
  PROVE  TypeOK'
<1>1. HandlersTyped'
  BY StopType DEF Deliver, TypeOK
<1>2. handlers[h].token \in Tokens
  BY DEF TypeOK, HandlersTyped, Locals
<1>3. cookie' \in [Browsers -> Tokens]
  BY <1>2 DEF Deliver, TypeOK, StateTyped
<1>4. QED BY <1>1, <1>3 DEF Deliver, TypeOK, StateTyped

LEMMA PurgeType ==
  ASSUME TypeOK, NEW h \in Handlers, Purge(h)
  PROVE  TypeOK'
<1> DEFINE late == Late("assert") \cup Late("create")
           x == IF handlers[h].op \in {"refresh", "change", "logoutAll"}
                THEN [handlers[h] EXCEPT !.at = "answer", !.token = None] ELSE Idle
<1>0. HandlersTyped /\ late \in SUBSET Handlers /\ handlers[h] \in Locals
  BY DEF TypeOK, HandlersTyped, Late
<1>1. handlers' = [Race(late) EXCEPT ![h] = x]
  BY DEF Purge
<1>2. /\ x \in Locals /\ x.at \in {"idle", "answer"}
      /\ x.at = "answer" => x.browser = handlers[h].browser
      /\ x.op = "reset" => handlers[h].op = "reset" /\ x.link = handlers[h].link
  BY <1>0, IdleType DEF Locals, Places, Tokens
<1>3. /\ handlers[h].browser # None
      /\ handlers[h].op = "reset" => handlers[h].link # None
  BY <1>0 DEF Purge, HandlersTyped
<1> HIDE DEF x, late
<1>4. handlers' \in [Handlers -> Locals]
  BY <1>0, <1>1, <1>2, RaceType
<1>5. ASSUME NEW g \in Handlers
      PROVE  /\ handlers'[g].at = "create" => handlers'[g].token # None
             /\ handlers'[g].at # "idle" => handlers'[g].browser # None
             /\ handlers'[g].op = "reset" => handlers'[g].link # None
  <2>1. CASE g = h
    <3>1. handlers'[g] = x
      BY <1>0, <1>1, <2>1, RaceType
    <3>2. x.at # "create" /\ (x.at # "idle" => x.browser # None)
          /\ (x.op = "reset" => x.link # None)
      BY <1>2, <1>3
    <3>3. QED BY <3>1, <3>2
  <2>2. CASE g # h
    <3>1. handlers'[g] = Race(late)[g]
      BY <1>0, <1>1, <2>2, RaceType
    <3>2. QED BY <1>0, <3>1, RaceType DEF HandlersTyped
  <2>3. QED BY <2>1, <2>2
<1>6. HandlersTyped'
  BY <1>4, <1>5 DEF HandlersTyped
<1>7. QED BY <1>6 DEF Purge, TypeOK, StateTyped

LEMMA RevokeType ==
  ASSUME TypeOK, RevokeAccess
  PROVE  TypeOK'
<1>1. HandlersTyped /\ Late("create") \in SUBSET Handlers
  BY DEF TypeOK, Late
<1>2. HandlersTyped'
  BY <1>1, RaceType DEF RevokeAccess, HandlersTyped
<1>3. QED BY <1>2 DEF RevokeAccess, TypeOK, StateTyped

LEMMA CrashType ==
  ASSUME TypeOK, Crash
  PROVE  TypeOK'
<1>1. HandlersTyped'
  BY IdleType DEF Crash, TypeOK, HandlersTyped
<1>2. QED BY <1>1 DEF Crash, TypeOK, StateTyped, PurgePending

LEMMA NextType == TypeOK /\ [Next]_vars => TypeOK'
<1> SUFFICES ASSUME TypeOK, [Next]_vars PROVE TypeOK'
  OBVIOUS
<1>1. CASE BrowserStep BY <1>1, SendType DEF BrowserStep
<1>2. ASSUME NEW h \in Handlers, SessionStep(h) \/ AccountStep(h) \/ Purge(h) \/ Deliver(h)
      PROVE  TypeOK'
  BY <1>2, SessionStepType, AccountStepType, PurgeType, DeliverType
<1>3. CASE RestoreAccess
  BY <1>3 DEF RestoreAccess, TypeOK, StateTyped, HandlersTyped
<1>3a. CASE Tick
  BY <1>3a DEF Tick, TypeOK, StateTyped, HandlersTyped
<1>4. CASE UNCHANGED vars
  BY <1>4 DEF vars, TypeOK, StateTyped, HandlersTyped
<1>5. QED BY <1>1, <1>2, <1>3, <1>3a, <1>4, RevokeType, CrashType DEF Next

\* In every reachable state the types hold, and handlers hold what their next
\* step needs.
THEOREM Typing == Spec => []TypeOK
BY InitType, NextType, PTL DEF Spec

(***************************************************************************)
(* Safety.  Most steps move one handler and add no session.                *)
(***************************************************************************)
LEMMA InitSafe == Init => Safe
<1> SUFFICES ASSUME Init PROVE Safe
  OBVIOUS
<1>1. RowsOK /\ OldPasswordOnlyByOverlap /\ RevokedOnlyByOverlap
  BY DEF Init, RowsOK, OldPasswordOnlyByOverlap, RevokedOnlyByOverlap
<1>2. \A h \in Handlers : handlers[h].at = "idle"
  BY IdleType DEF Init
<1>3. HandlersOK
  BY <1>2 DEF HandlersOK, Holds
<1>4. RotationIsLinear
  BY <1>2 DEF Init, RotationIsLinear, Rotating
<1>5. QED BY <1>1, <1>3, <1>4 DEF Safe

\* What a handler holds is safe from other deletions.
LEMMA HoldsKept ==
  ASSUME sessions' \subseteq sessions, UNCHANGED <<password, made>>,
         revoked' => revoked, abandoned => abandoned', PurgePending => PurgePending',
         NEW x, Holds(x)
  PROVE  Holds(x)'
BY DEF Holds

\* Only the handler that purges ends a pending purge.
LEMMA PendingKept ==
  ASSUME HandlersTyped, NEW h \in Handlers, NEW x, Becomes(h, x), handlers[h].at # "purge"
  PROVE  PurgePending => PurgePending'
BY DEF HandlersTyped, Becomes, PurgePending, At

LEMMA OneMoves ==
  ASSUME TypeOK, Safe, NEW h \in Handlers, NEW x \in Locals, Becomes(h, x),
         handlers[h].at # "purge",
         sessions' \subseteq sessions, UNCHANGED <<password, revoked, made, abandoned>>,
         Holds(x),
         x.at \in {"assert", "create"} /\ x.op = "refresh" =>
           /\ \A s \in sessions' : s.fam # x.fam
           /\ \A g \in Handlers \ {h} : Rotating(g) => handlers[g].fam # x.fam
  PROVE  Safe'
<1>1. /\ handlers'[h] = x
      /\ \A g \in Handlers \ {h} : handlers'[g] = handlers[g]
  BY DEF Becomes, TypeOK, HandlersTyped
<1>2. PurgePending => PurgePending'
  BY PendingKept DEF TypeOK
<1>3. RowsOK'
  BY DEF Safe, RowsOK
<1>4. HandlersOK'
  <2>1. \A y : Holds(y) => Holds(y)'
    BY <1>2, HoldsKept
  <2>2. \A g \in Handlers : Holds(handlers'[g])
    BY <1>1 DEF Safe, HandlersOK
  <2>3. QED BY <2>1, <2>2 DEF HandlersOK, Holds
<1>5. RotationIsLinear'
  <2>1. Rotating(h)' <=> x.at \in {"assert", "create"} /\ x.op = "refresh"
    BY <1>1 DEF Rotating
  <2>2. \A g \in Handlers \ {h} : Rotating(g)' <=> Rotating(g)
    BY <1>1 DEF Rotating
  <2>3. QED BY <1>1, <2>1, <2>2 DEF Safe, RotationIsLinear
<1>6. OldPasswordOnlyByOverlap'
  BY <1>2 DEF Safe, OldPasswordOnlyByOverlap
<1>7. RevokedOnlyByOverlap'
  BY DEF Safe, RevokedOnlyByOverlap
<1>8. QED BY <1>3, <1>4, <1>5, <1>6, <1>7 DEF Safe

\* A handler that stops, answers, or goes on with something else.
LEMMA Quiet ==
  ASSUME TypeOK, Safe, NEW h \in Handlers, handlers[h].at # "purge",
         sessions' \subseteq sessions, UNCHANGED <<password, revoked, made, abandoned>>,
         \/ Stop(h) \/ Clear(h)
         \/ \E place \in {"drop", "link", "apply", "purge", "answer"} : Goto(h, place)
         \/ \E x \in Locals : Becomes(h, x) /\ x.at = "sent"
  PROVE  Safe'
<1>1. \E x \in Locals : Becomes(h, x) /\ x.at \notin {"rotate", "assert", "create"}
  <2>0. handlers[h] \in Locals
    BY DEF TypeOK, HandlersTyped
  <2>1. CASE Stop(h)
    BY <2>1, IdleType DEF Stop, Becomes
  <2>2. CASE Clear(h)
    <3> DEFINE x == [handlers[h] EXCEPT !.at = "answer", !.token = None]
    <3>1. x \in Locals /\ x.at = "answer"
      BY <2>0 DEF Locals, Places, Tokens
    <3>2. Becomes(h, x)
      BY <2>0, <2>2 DEF Clear, Becomes, Locals
    <3> HIDE DEF x
    <3>3. QED BY <3>1, <3>2
  <2>3. ASSUME NEW place \in {"drop", "link", "apply", "purge", "answer"}, Goto(h, place)
        PROVE  \E x \in Locals : Becomes(h, x) /\ x.at \notin {"rotate", "assert", "create"}
    <3>1. place \in Places
      BY DEF Places
    <3>2. PICK x \in Locals : x = [handlers[h] EXCEPT !.at = place] /\ Becomes(h, x)
      BY <2>3, <3>1, Moves DEF TypeOK
    <3>3. x.at = place
      BY <2>0, <3>2 DEF Locals
    <3>4. QED BY <3>2, <3>3
  <2>4. QED BY <2>1, <2>2, <2>3
<1>2. PICK x \in Locals : Becomes(h, x) /\ x.at \notin {"rotate", "assert", "create"}
  BY <1>1
<1>3. Holds(x)
  BY <1>2 DEF Holds
<1>4. QED BY <1>2, <1>3, OneMoves

LEMMA SendSafe ==
  ASSUME TypeOK, Safe, NEW h \in Handlers, NEW b \in Browsers,
         \/ \E op \in Ops : Send(h, b, op)
         \/ \E l \in Links : SendReset(h, b, l)
  PROVE  Safe'
<1>1. \E x \in Locals : Becomes(h, x) /\ x.at = "sent"
  <2>1. ASSUME NEW op \in Ops, Send(h, b, op)
        PROVE  \E x \in Locals : Becomes(h, x) /\ x.at = "sent"
    <3> DEFINE f == IF op = "logout" THEN FamilyOf(cookie[b]) ELSE 0
    <3> DEFINE x == [Idle EXCEPT !.op = op, !.at = "sent", !.browser = b, !.token = cookie[b],
                                 !.pw = password, !.fam = f]
    <3>1. f \in Nat
      BY DEF FamilyOf, TypeOK, StateTyped, SessionRows
    <3>2. Becomes(h, x)
      BY <2>1 DEF Send, Becomes
    <3>3. cookie[b] \in Tokens /\ password \in Nat
      BY DEF TypeOK, StateTyped
    <3> HIDE DEF f
    <3>4. x \in Locals /\ x.at = "sent"
      BY <3>1, <3>3, IdleType DEF Locals, Places
    <3> HIDE DEF x
    <3>5. QED BY <3>2, <3>4
  <2>2. ASSUME NEW l \in Links, SendReset(h, b, l)
        PROVE  \E x \in Locals : Becomes(h, x) /\ x.at = "sent"
    <3> DEFINE x == [Idle EXCEPT !.op = "reset", !.at = "sent", !.browser = b, !.link = l]
    <3>1. Becomes(h, x)
      BY <2>2 DEF SendReset, Becomes
    <3>2. x \in Locals /\ x.at = "sent"
      BY IdleType DEF Locals, Places, Ops
    <3> HIDE DEF x
    <3>3. QED BY <3>1, <3>2
  <2>3. QED BY <2>1, <2>2
<1>2. handlers[h].at # "purge" /\ UNCHANGED <<sessions, password, revoked, made, abandoned>>
  BY DEF Send, SendReset
<1>3. QED BY <1>1, <1>2, Quiet

LEMMA AccountStepSafe ==
  ASSUME TypeOK, Safe, NEW h \in Handlers,
         \/ Authenticate(h) \/ Drop(h) \/ ForgotRetire(h) \/ ResetCheck(h) \/ Deliver(h)
         \/ \E l \in Links : ForgotCreate(h, l)
  PROVE  Safe'
<1>1. handlers[h].at # "purge"
  BY DEF Authenticate, Drop, ForgotRetire, ResetCheck, Deliver, ForgotCreate, At
<1>2. sessions' \subseteq sessions /\ UNCHANGED <<password, revoked, made, abandoned>>
  BY DEF Authenticate, Drop, ForgotRetire, ResetCheck, Deliver, ForgotCreate
<1>3. \/ Stop(h) \/ Clear(h)
      \/ \E place \in {"drop", "link", "apply", "purge", "answer"} : Goto(h, place)
  BY DEF Authenticate, Drop, ForgotRetire, ResetCheck, Deliver, ForgotCreate
<1>4. QED BY <1>1, <1>2, <1>3, Quiet

LEMMA LoginCheckSafe ==
  ASSUME TypeOK, Safe, NEW h \in Handlers, LoginCheck(h)
  PROVE  Safe'
<1>1. CASE Goto(h, "assert") /\ handlers[h].pw = password
  <2>1. PICK x \in Locals : x = [handlers[h] EXCEPT !.at = "assert"] /\ Becomes(h, x)
    BY <1>1, Moves DEF TypeOK, Places
  <2>2. x.at = "assert" /\ x.op = "login" /\ x.pw = password
    BY <1>1, <2>1 DEF TypeOK, HandlersTyped, Locals, LoginCheck, At
  <2>3. Holds(x)
    BY <2>2 DEF Holds
  <2>4. QED BY <2>1, <2>2, <2>3, OneMoves DEF LoginCheck, At
<1>2. CASE Stop(h) \/ Goto(h, "purge")
  BY <1>2, Quiet DEF LoginCheck, At
<1>3. QED BY <1>1, <1>2 DEF LoginCheck

LEMMA RefreshFindSafe ==
  ASSUME TypeOK, Safe, NEW h \in Handlers, RefreshFind(h)
  PROVE  Safe'
<1>0. handlers[h] \in Locals
  BY DEF TypeOK, HandlersTyped
<1>1. CASE Clear(h)
  BY <1>1, Quiet DEF RefreshFind, At
<1>2. ASSUME NEW s \in Found(h), handlers' = [handlers EXCEPT
             ![h].at = IF revoked THEN "purge" ELSE "rotate",
             ![h].sid = s.id, ![h].fam = s.fam, ![h].pw = s.pw, ![h].raced = s.raced]
      PROVE  Safe'
  <2> DEFINE p == IF revoked THEN "purge" ELSE "rotate"
  <2> DEFINE x == [handlers[h] EXCEPT !.at = p, !.sid = s.id, !.fam = s.fam,
                                      !.pw = s.pw, !.raced = s.raced]
  <2>1. s \in SessionRows /\ s \in sessions
    BY DEF Found, TypeOK, StateTyped
  <2>2. p \in {"purge", "rotate"}
    OBVIOUS
  <2>3. Becomes(h, x)
    BY <1>0, <1>2 DEF Becomes, Locals
  <2> HIDE DEF p
  <2>4. /\ x \in Locals /\ x.at = p /\ x.op = handlers[h].op /\ x.sid = s.id
        /\ x.fam = s.fam /\ x.pw = s.pw /\ x.raced = s.raced
    BY <1>0, <2>1, <2>2 DEF Locals, SessionRows, Places
  <2> HIDE DEF x
  <2>5. Holds(x)
    BY <2>1, <2>2, <2>4 DEF Holds, Safe, RowsOK, RefreshFind, At
  <2>6. QED BY <2>2, <2>3, <2>4, <2>5, OneMoves DEF RefreshFind, At
<1>3. QED BY <1>1, <1>2 DEF RefreshFind

\* The row goes away with its family, which the handler carries on alone.
LEMMA RotateSafe ==
  ASSUME TypeOK, Safe, NEW h \in Handlers, Rotate(h)
  PROVE  Safe'
<1> DEFINE old == {s \in sessions : s.id = handlers[h].sid}
<1>1. CASE Clear(h)
  BY <1>1, Quiet DEF Rotate, At
<1>2. CASE old # {} /\ Goto(h, "assert")
  <2>1. PICK x \in Locals : x = [handlers[h] EXCEPT !.at = "assert"] /\ Becomes(h, x)
    BY <1>2, Moves DEF TypeOK, Places
  <2>2. /\ x.at = "assert" /\ x.op = "refresh" /\ x.fam = handlers[h].fam
        /\ x.pw = handlers[h].pw /\ x.raced = handlers[h].raced
    BY <2>1 DEF TypeOK, HandlersTyped, Locals, Rotate, At
  <2>3. PICK s \in sessions : s.id = handlers[h].sid
    BY <1>2
  <2>4. /\ handlers[h].at = "rotate" /\ sessions' = sessions \ old
        /\ s.fam = x.fam /\ s.pw = x.pw /\ s.raced = x.raced /\ x.fam <= made
    BY <2>2, <2>3 DEF Rotate, At, Safe, HandlersOK, Holds
  <2>5. x.pw # password => x.raced \/ PurgePending \/ abandoned
    BY <2>4 DEF Safe, OldPasswordOnlyByOverlap
  <2>6. Holds(x)
    BY <2>2, <2>4, <2>5 DEF Holds
  <2>7. \A t \in sessions' : t.fam # x.fam
    BY <2>3, <2>4 DEF Safe, RotationIsLinear
  <2>8. \A g \in Handlers \ {h} : Rotating(g) => handlers[g].fam # x.fam
    BY <2>3, <2>4 DEF Safe, RotationIsLinear
  <2>9. sessions' \subseteq sessions /\ UNCHANGED <<password, revoked, made, abandoned>>
    BY DEF Rotate
  <2>10. QED BY <2>1, <2>4, <2>6, <2>7, <2>8, <2>9, OneMoves
<1>3. QED BY <1>1, <1>2 DEF Rotate

LEMMA SignSafe ==
  ASSUME TypeOK, Safe, NEW h \in Handlers, Sign(h)
  PROVE  Safe'
<1>0. handlers[h] \in Locals
  BY DEF TypeOK, HandlersTyped
<1>1. CASE Stop(h) \/ Clear(h)
  BY <1>1, Quiet DEF Sign, At
<1>2. CASE ~ revoked /\ handlers' = [handlers EXCEPT ![h].at = "create", ![h].token = now]
  <2> DEFINE x == [handlers[h] EXCEPT !.at = "create", !.token = now]
  <2>1. Becomes(h, x)
    BY <1>0, <1>2 DEF Becomes, Locals
  <2>2. /\ x \in Locals /\ x.at = "create" /\ x.op = handlers[h].op /\ x.fam = handlers[h].fam
        /\ x.pw = handlers[h].pw /\ x.raced = handlers[h].raced
    BY <1>0 DEF Locals, Places, Tokens, TypeOK, StateTyped
  <2> HIDE DEF x
  <2>3. handlers[h].at = "assert" /\ Holds(handlers[h])
    BY DEF Sign, At, Safe, HandlersOK
  <2>4. Holds(x)
    BY <1>2, <2>2, <2>3 DEF Holds
  <2>5. x.op = "refresh" => Rotating(h)
    BY <2>2, <2>3 DEF Rotating
  <2>6. x.op = "refresh" =>
          /\ \A s \in sessions : s.fam # x.fam
          /\ \A g \in Handlers \ {h} : Rotating(g) => handlers[g].fam # x.fam
    BY <2>2, <2>5 DEF Safe, RotationIsLinear
  <2>7. UNCHANGED <<sessions, password, revoked, made, abandoned>>
    BY DEF Sign
  <2>8. QED BY <2>1, <2>2, <2>3, <2>4, <2>6, <2>7, OneMoves
<1>3. QED BY <1>1, <1>2 DEF Sign, Fail

\* The new row has a new id, and the family of the handler that leaves it.
LEMMA CreateSafe ==
  ASSUME TypeOK, Safe, NEW h \in Handlers, Create(h)
  PROVE  Safe'
<1>0. /\ handlers \in [Handlers -> Locals] /\ made \in Nat /\ sessions \subseteq SessionRows
      /\ handlers[h] \in Locals
  BY DEF TypeOK, HandlersTyped, StateTyped
<1>1. CASE (Stop(h) \/ Clear(h)) /\ UNCHANGED <<sessions, made>>
  BY <1>1, Quiet DEF Create, At
<1>2. CASE Goto(h, "answer") /\ sessions' = sessions \cup {Row(h)} /\ made' = made + 1
  <2> DEFINE n == Row(h)
  <2>1. PICK x \in Locals : x = [handlers[h] EXCEPT !.at = "answer"] /\ Becomes(h, x)
    BY <1>2, Moves DEF TypeOK, Places
  <2>2. x.at = "answer"
    BY <1>0, <2>1 DEF Locals
  <2>3. /\ handlers'[h] = x
        /\ \A g \in Handlers \ {h} : handlers'[g] = handlers[g]
    BY <1>0, <2>1 DEF Becomes
  <2>4. /\ handlers[h].at = "create" /\ handlers[h].op \in {"login", "refresh"}
        /\ Holds(handlers[h]) /\ UNCHANGED <<password, revoked, abandoned>>
    BY DEF Create, At, Safe, HandlersOK
  <2>5. /\ n.id = made + 1 /\ n.pw = handlers[h].pw /\ n.raced = handlers[h].raced
        /\ n.fam = IF handlers[h].op = "login" THEN made + 1 ELSE handlers[h].fam
    BY DEF Row
  <2>6. PurgePending => PurgePending'
    BY <2>1, <2>4, PendingKept DEF TypeOK
  <2>7. n.fam \in Nat /\ n.fam <= made + 1
    BY <1>0, <2>4, <2>5 DEF Locals, Holds
  <2> HIDE DEF n
  <2>8. sessions' = sessions \cup {n} /\ made' = made + 1
    BY <1>2 DEF n
  <2>9. \A s \in sessions : s.id \in Nat /\ s.fam \in Nat /\ s.id <= made /\ s.fam <= made
    BY <1>0 DEF SessionRows, Safe, RowsOK
  <2>10. RowsOK'
    BY <1>0, <2>5, <2>7, <2>8, <2>9 DEF Safe, RowsOK
  <2>11. HandlersOK'
    <3>1. ASSUME NEW y \in Locals, Holds(y) PROVE Holds(y)'
      <4>1. y.sid \in Nat /\ y.fam \in Nat
        BY DEF Locals
      <4>2. y.at = "rotate" => y.sid # n.id
        BY <1>0, <2>5, <3>1, <4>1 DEF Holds
      <4>3. y.fam <= made => y.fam <= made'
        BY <1>0, <2>8, <4>1
      <4>4. y.sid <= made => y.sid <= made'
        BY <1>0, <2>8, <4>1
      <4>5. QED BY <2>4, <2>6, <2>8, <3>1, <4>2, <4>3, <4>4 DEF Holds
    <3>2. \A g \in Handlers : handlers'[g] \in Locals /\ Holds(handlers'[g])
      <4>1. Holds(x)
        BY <2>2 DEF Holds
      <4>2. QED BY <1>0, <2>3, <4>1 DEF Safe, HandlersOK
    <3>3. \A y \in Locals : Holds(y) => Holds(y)'
      BY <3>1
    <3>4. QED BY <3>2, <3>3 DEF HandlersOK, Holds
  <2>12. RotationIsLinear'
    <3>1. \A g \in Handlers : Rotating(g)' <=> g # h /\ Rotating(g)
      BY <2>2, <2>3 DEF Rotating
    <3>2. \A s \in sessions : s.fam # n.fam
      <4>1. CASE handlers[h].op = "login"
        BY <1>0, <2>5, <2>9, <4>1
      <4>2. CASE handlers[h].op = "refresh"
        BY <2>4, <2>5, <4>2 DEF Safe, RotationIsLinear, Rotating
      <4>3. QED BY <2>4, <4>1, <4>2
    <3>3. \A g \in Handlers : g # h /\ Rotating(g) => handlers[g].fam # n.fam
      <4>1. CASE handlers[h].op = "login"
        <5>1. ASSUME NEW g \in Handlers, Rotating(g) PROVE handlers[g].fam # made + 1
          <6>1. handlers[g].fam \in Nat /\ handlers[g].fam <= made
            BY <1>0, <5>1 DEF Rotating, Safe, HandlersOK, Holds, Locals
          <6>2. QED BY <1>0, <6>1
        <5>2. QED BY <2>5, <4>1, <5>1
      <4>2. CASE handlers[h].op = "refresh"
        BY <2>4, <2>5, <4>2 DEF Safe, RotationIsLinear, Rotating
      <4>3. QED BY <2>4, <4>1, <4>2
    <3>4. \A s, t \in sessions' : s.fam = t.fam => s = t
      BY <2>8, <3>2 DEF Safe, RotationIsLinear
    <3>5. \A g \in Handlers, s \in sessions' : Rotating(g)' => s.fam # handlers'[g].fam
      BY <2>3, <2>8, <3>1, <3>3 DEF Safe, RotationIsLinear
    <3>6. \A f, g \in Handlers :
            Rotating(f)' /\ Rotating(g)' /\ handlers'[f].fam = handlers'[g].fam => f = g
      BY <2>3, <3>1 DEF Safe, RotationIsLinear
    <3>7. QED BY <3>4, <3>5, <3>6 DEF RotationIsLinear
  <2>13. OldPasswordOnlyByOverlap'
    BY <2>4, <2>5, <2>6, <2>8 DEF Safe, OldPasswordOnlyByOverlap, Holds
  <2>14. RevokedOnlyByOverlap'
    BY <2>4, <2>5, <2>8 DEF Safe, RevokedOnlyByOverlap, Holds
  <2>15. QED BY <2>10, <2>11, <2>12, <2>13, <2>14 DEF Safe
<1>3. QED BY <1>1, <1>2 DEF Create, Fail

\* From here to the purge every old session has its excuse.
LEMMA ApplySafe ==
  ASSUME TypeOK, Safe, NEW h \in Handlers, Apply(h)
  PROVE  Safe'
<1>1. PICK x \in Locals : x = [handlers[h] EXCEPT !.at = "purge"] /\ Becomes(h, x)
  BY Moves DEF Apply, TypeOK, Places
<1>2. x.at = "purge" /\ x.op \in {"change", "reset"}
  BY <1>1 DEF TypeOK, HandlersTyped, Locals, Apply, At
<1>3. /\ handlers'[h] = x
      /\ \A g \in Handlers \ {h} : handlers'[g] = handlers[g]
  BY <1>1 DEF Becomes, TypeOK, HandlersTyped
<1>4. PurgePending'
  BY <1>2, <1>3 DEF PurgePending, At
<1>5. UNCHANGED <<sessions, made, revoked, abandoned>>
  BY DEF Apply
<1>6. RowsOK' /\ RevokedOnlyByOverlap' /\ OldPasswordOnlyByOverlap'
  BY <1>4, <1>5 DEF Safe, RowsOK, RevokedOnlyByOverlap, OldPasswordOnlyByOverlap
<1>7. HandlersOK'
  <2>1. \A y : Holds(y) => Holds(y)'
    BY <1>4, <1>5 DEF Holds
  <2>2. Holds(x)
    BY <1>2 DEF Holds
  <2>3. \A g \in Handlers : Holds(handlers'[g])
    BY <1>3, <2>2 DEF Safe, HandlersOK
  <2>4. QED BY <2>1, <2>3 DEF HandlersOK, Holds
<1>8. RotationIsLinear'
  <2>1. \A g \in Handlers : Rotating(g)' => g # h /\ Rotating(g)
    BY <1>2, <1>3 DEF Rotating
  <2>2. QED BY <1>3, <1>5, <2>1 DEF Safe, RotationIsLinear
<1>9. QED BY <1>6, <1>7, <1>8 DEF Safe

\* No row is left, and whoever still brings one has been taken note of.
LEMMA PurgeSafe ==
  ASSUME TypeOK, Safe, NEW h \in Handlers, Purge(h)
  PROVE  Safe'
<1> DEFINE late == Late("assert") \cup Late("create")
           x == IF handlers[h].op \in {"refresh", "change", "logoutAll"}
                THEN [handlers[h] EXCEPT !.at = "answer", !.token = None] ELSE Idle
<1>0. HandlersTyped /\ late \in SUBSET Handlers /\ handlers[h] \in Locals
  BY DEF TypeOK, HandlersTyped, Late
<1>1. /\ handlers' = [Race(late) EXCEPT ![h] = x] /\ sessions' = {}
      /\ UNCHANGED <<password, revoked, made, abandoned>>
  BY DEF Purge
<1>2. x.at \in {"idle", "answer"}
  BY <1>0, IdleType DEF Locals
<1>3. /\ handlers'[h] = x
      /\ \A g \in Handlers \ {h} : handlers'[g] = Race(late)[g]
  BY <1>0, <1>1, RaceType
<1>4. \A g \in Handlers : handlers[g].at \in {"assert", "create"} => g \in late
  BY DEF Late, At, Safe, HandlersOK, Holds
<1> HIDE DEF late, x
<1>5. RowsOK' /\ OldPasswordOnlyByOverlap' /\ RevokedOnlyByOverlap'
  BY <1>1 DEF RowsOK, OldPasswordOnlyByOverlap, RevokedOnlyByOverlap
<1>6. ASSUME NEW g \in Handlers PROVE Holds(handlers[g])'
  <2>1. CASE g = h
    BY <1>2, <1>3, <2>1 DEF Holds
  <2>2. CASE g # h
    <3>1. Holds(handlers[g])
      BY DEF Safe, HandlersOK
    <3>2. /\ handlers'[g].at = handlers[g].at /\ handlers'[g].op = handlers[g].op
          /\ handlers'[g].sid = handlers[g].sid /\ handlers'[g].fam = handlers[g].fam
          /\ handlers'[g].pw = handlers[g].pw
          /\ handlers'[g].at \in {"assert", "create"} => handlers'[g].raced
      BY <1>0, <1>3, <1>4, <2>2, RaceType
    <3>3. QED BY <1>1, <3>1, <3>2 DEF Holds
  <2>3. QED BY <2>1, <2>2
<1>7. RotationIsLinear'
  <2>1. \A g \in Handlers :
          Rotating(g)' => Rotating(g) /\ handlers'[g].fam = handlers[g].fam
    BY <1>0, <1>2, <1>3, RaceType DEF Rotating
  <2>2. QED BY <1>1, <2>1 DEF Safe, RotationIsLinear
<1>8. QED BY <1>5, <1>6, <1>7 DEF Safe, HandlersOK

LEMMA RevokeSafe ==
  ASSUME TypeOK, Safe, RevokeAccess
  PROVE  Safe'
<1> DEFINE late == Late("create")
<1>0. HandlersTyped /\ late \in SUBSET Handlers
  BY DEF TypeOK, Late
<1>1. handlers' = Race(late) /\ sessions' = {} /\ UNCHANGED <<password, made, abandoned>>
  BY DEF RevokeAccess
<1>2. \A g \in Handlers : handlers[g].at = "create" => g \in late
  BY DEF Late, At, Safe, HandlersOK, Holds
<1> HIDE DEF late
<1>3. RowsOK' /\ OldPasswordOnlyByOverlap' /\ RevokedOnlyByOverlap'
  BY <1>1 DEF RowsOK, OldPasswordOnlyByOverlap, RevokedOnlyByOverlap
<1>4. \A g \in Handlers :
        /\ handlers'[g].at = handlers[g].at /\ handlers'[g].op = handlers[g].op
        /\ handlers'[g].sid = handlers[g].sid /\ handlers'[g].fam = handlers[g].fam
        /\ handlers'[g].pw = handlers[g].pw /\ (handlers[g].raced => handlers'[g].raced)
        /\ handlers'[g].at = "create" => handlers'[g].raced
  BY <1>0, <1>1, <1>2, RaceType
<1>5. PurgePending => PurgePending'
  BY <1>4 DEF PurgePending, At
<1>6. ASSUME NEW g \in Handlers PROVE Holds(handlers[g])'
  BY <1>1, <1>4, <1>5 DEF Safe, HandlersOK, Holds
<1>7. RotationIsLinear'
  BY <1>1, <1>4 DEF Safe, RotationIsLinear, Rotating
<1>8. QED BY <1>3, <1>6, <1>7 DEF Safe, HandlersOK

LEMMA CrashSafe ==
  ASSUME TypeOK, Safe, Crash
  PROVE  Safe'
<1>1. /\ UNCHANGED <<sessions, password, revoked, made>>
      /\ abandoned' = (abandoned \/ PurgePending)
  BY DEF Crash
<1>2. \A g \in Handlers : handlers'[g].at \in {"idle", "answer"}
  BY IdleType DEF Crash
<1>3. RowsOK' /\ OldPasswordOnlyByOverlap' /\ RevokedOnlyByOverlap'
  BY <1>1 DEF Safe, RowsOK, OldPasswordOnlyByOverlap, RevokedOnlyByOverlap
<1>4. HandlersOK'
  BY <1>2 DEF HandlersOK, Holds
<1>5. RotationIsLinear'
  BY <1>1, <1>2 DEF Safe, RotationIsLinear, Rotating
<1>6. QED BY <1>3, <1>4, <1>5 DEF Safe

LEMMA NextSafe == TypeOK /\ Safe /\ [Next]_vars => Safe'
<1> SUFFICES ASSUME TypeOK, Safe, [Next]_vars PROVE Safe'
  OBVIOUS
<1>1. CASE BrowserStep BY <1>1, SendSafe DEF BrowserStep
<1>2. ASSUME NEW h \in Handlers, SessionStep(h) PROVE Safe'
  BY <1>2, LoginCheckSafe, RefreshFindSafe, RotateSafe, SignSafe, CreateSafe DEF SessionStep
<1>3. ASSUME NEW h \in Handlers, AccountStep(h) \/ Deliver(h) PROVE Safe'
  BY <1>3, AccountStepSafe, ApplySafe DEF AccountStep
<1>4. CASE RestoreAccess
  <2>1. \A y : Holds(y) => Holds(y)'
    BY <1>4 DEF RestoreAccess, Holds, PurgePending, At
  <2>2. HandlersOK'
    BY <1>4, <2>1 DEF RestoreAccess, Safe, HandlersOK, Holds
  <2>3. QED BY <1>4, <2>2 DEF RestoreAccess, Safe, RowsOK, RotationIsLinear, Rotating,
          OldPasswordOnlyByOverlap, RevokedOnlyByOverlap, PurgePending, At
<1>5. CASE UNCHANGED <<sessions, made, password, revoked, handlers, abandoned>>
  BY <1>5 DEF Safe, RowsOK, HandlersOK, Holds, RotationIsLinear, Rotating,
          OldPasswordOnlyByOverlap, RevokedOnlyByOverlap, PurgePending, At
<1>6. QED BY <1>1, <1>2, <1>3, <1>4, <1>5, PurgeSafe, RevokeSafe, CrashSafe DEF Next, Tick, vars

THEOREM Safety == Spec => []Safe
BY Typing, InitSafe, NextSafe, PTL DEF Spec

\* However many tabs and requests refresh at once, and whatever happens between
\* their steps, a login keeps at most one session.
THEOREM OneSessionPerLogin == Spec => []RotationIsLinear
<1>1. Safe => RotationIsLinear
  BY DEF Safe
<1>2. QED BY <1>1, Safety, PTL

\* A session that goes back to a replaced password overlapped the purge.
THEOREM OldPasswordsAreOut == Spec => []OldPasswordOnlyByOverlap
<1>1. Safe => OldPasswordOnlyByOverlap
  BY DEF Safe
<1>2. QED BY <1>1, Safety, PTL

\* While access is revoked, only a session that overlapped the revocation is there.
THEOREM RevocationHolds == Spec => []RevokedOnlyByOverlap
<1>1. Safe => RevokedOnlyByOverlap
  BY DEF Safe
<1>2. QED BY <1>1, Safety, PTL

-----------------------------------------------------------------------------
(* The tab: the inductive invariant *)

TokensUpTo(n) == (1 .. n) \cup {Null}

RequestType(n) ==
  [at : {"idle", "sent", "answered", "queued", "leading", "done"},
   token : TokensUpTo(n), cookie : TokensUpTo(n), retried : BOOLEAN,
   answer : {"none", "ok", "401", "no"}, gen : TokensUpTo(n)]

ServerTypes(l, i, e, b) == l \subseteq 1 .. i /\ e \subseteq 1 .. i /\ i \in 1 .. MaxTokens /\ b \in BOOLEAN

StoreTypes(a, z, p, c, b, s, o, x) ==
  /\ a \in BOOLEAN /\ z \in BOOLEAN /\ p \in BOOLEAN
  /\ c \in {"none", "boot", "login", "logout"}
  /\ b \in {"start", "refresh", "profile", "over"}
  /\ s \in {"idle", "wait"} /\ o \in {"idle", "marked", "unmarked"}
  /\ x \subseteq {"boot", "login"}

\* Whoever waits for a silent refresh waits for one that is under way: one request
\* leads, the refresh is out exactly while one does, and only then are others
\* queued behind it.
QueueIsServed(q, l) ==
  /\ l \in (Requests \ Skips) \cup {Null}
  /\ q["silent"].at \in {"idle", "sent", "answered"}
  /\ l # Null <=> q["silent"].at # "idle"
  /\ \A r \in Requests : q[r].at = "leading" <=> r = l
  /\ \A r \in Requests : q[r].at = "queued" => l # Null

\* Every operation of the store in progress has the request it awaits, and no
\* request is sent a second time before the first is over.
AwaitsItsRequest(q, b, s, o) ==
  /\ b = "start" => q["boot"].at = "idle"
  /\ b \in {"start", "refresh"} => q["profile"].at = "idle"
  /\ b = "refresh" => q["boot"].at # "idle"
  /\ b = "profile" => q["profile"].at # "idle"
  /\ s = "wait" <=> q["login"].at # "idle"
  /\ o # "idle" <=> q["bye"].at # "idle"
  /\ o # "idle" => q["logout"].at = "idle"

\* An operation that a sign-out overtook is not the latest one any more.
OvertakenIsOver(b, c, x) ==
  /\ b = "start" => "boot" \notin x
  /\ "boot" \in x => c # "boot"
  /\ "login" \in x => c # "login"

ClientInv ==
  /\ ServerTypes(live, issued, expired, blocked)
  /\ jar \in TokensUpTo(issued) /\ token \in TokensUpTo(issued)
  /\ req \in [Requests -> RequestType(issued)]
  /\ StoreTypes(isAuthenticated, isInitialized, persisted, current, boot, signin, signout, stale)
  /\ QueueIsServed(req, leader)
  /\ AwaitsItsRequest(req, boot, signin, signout)
  /\ OvertakenIsOver(boot, current, stale)

-----------------------------------------------------------------------------
(* Requests *)

LEMMA NamesDiffer ==
  /\ \A c \in Calls : c \notin Awaited /\ c # "logout" /\ c # "silent"
  /\ "silent" \in Requests /\ "logout" \in Requests /\ Awaited \subseteq Requests
  /\ Calls \subseteq Requests /\ Refreshes \subseteq Requests
  /\ "boot" \in Awaited /\ "profile" \in Awaited /\ "login" \in Awaited /\ "bye" \in Awaited
  /\ "silent" \notin Awaited /\ "silent" \in Skips /\ "bye" \in Skips
  /\ Null \notin Requests
BY ClientAssumption DEF Requests, Awaited, Refreshes, Skips

LEMMA TokensGrow ==
  ASSUME NEW m \in Nat, NEW n \in Nat, m <= n
  PROVE  TokensUpTo(m) \subseteq TokensUpTo(n) /\ RequestType(m) \subseteq RequestType(n)
<1>1. TokensUpTo(m) \subseteq TokensUpTo(n)
  BY DEF TokensUpTo
<1>2. QED BY <1>1 DEF RequestType

LEMMA NullIsToken == ASSUME NEW n PROVE Null \in TokensUpTo(n)
BY DEF TokensUpTo

LEMMA NoRequestIs ==
  ASSUME NEW n
  PROVE  NoRequest \in RequestType(n) /\ NoRequest.at = "idle"
BY NullIsToken DEF NoRequest, RequestType

LEMMA SentIs ==
  ASSUME req \in [Requests -> RequestType(issued)], NEW n,
         NEW r \in Requests, NEW t \in TokensUpTo(n), NEW k \in TokensUpTo(n)
  PROVE  Sent(r, t, k) \in RequestType(n) /\ Sent(r, t, k).at = "sent"
<1> DEFINE u == IF r \in Calls \cup {"profile", "logout"} THEN t ELSE Null
           v == IF r \in Refreshes \cup {"logout"} THEN k ELSE Null
           w == req[r].retried
<1>1. u \in TokensUpTo(n) /\ v \in TokensUpTo(n) /\ w \in BOOLEAN
  BY NullIsToken DEF RequestType
<1>2. Sent(r, t, k) = [NoRequest EXCEPT !.at = "sent", !.retried = w, !.token = u, !.cookie = v]
  BY DEF Sent
<1> HIDE DEF u, v, w
<1>3. QED BY <1>1, <1>2, NoRequestIs DEF RequestType

LEMMA NewRequestIs ==
  ASSUME req \in [Requests -> RequestType(issued)], jar \in TokensUpTo(issued),
         NEW r \in Requests, NEW t \in TokensUpTo(issued)
  PROVE  NewRequest(r, t) \in RequestType(issued) /\ NewRequest(r, t).at = "sent"
<1> DEFINE s == Sent(r, t, jar)
<1>1. s \in RequestType(issued) /\ s.at = "sent"
  BY SentIs
<1>2. NewRequest(r, t) = [s EXCEPT !.retried = FALSE]
  BY DEF NewRequest
<1> HIDE DEF s
<1>3. QED BY <1>1, <1>2 DEF RequestType

LEMMA HeldIs ==
  ASSUME NEW n, NEW r, NEW place \in {"queued", "leading"}, NEW b \in BOOLEAN
  PROVE  Held(r, place, b) \in RequestType(n) /\ Held(r, place, b).at = place
<1>1. QED BY NoRequestIs DEF Held, RequestType

LEMMA OverIs ==
  ASSUME req \in [Requests -> RequestType(issued)], NEW r \in Requests,
         NEW a \in {"none", "ok", "401", "no"}
  PROVE  /\ Over(r, a) \in RequestType(issued)
         /\ r \in Awaited => Over(r, a).at = "done"
         /\ r \notin Awaited => Over(r, a).at = "idle"
<1> DEFINE g == IF a = "ok" THEN req[r].gen ELSE Null
           d == [NoRequest EXCEPT !.at = "done", !.answer = a, !.gen = g]
<1>1. g \in TokensUpTo(issued)
  BY NullIsToken DEF RequestType
<1>2. Over(r, a) = IF r \in Awaited THEN d ELSE NoRequest
  BY DEF Over
<1> HIDE DEF g
<1>3. d \in RequestType(issued) /\ d.at = "done"
  BY <1>1, NoRequestIs DEF RequestType
<1> HIDE DEF d
<1>4. QED BY <1>2, <1>3, NoRequestIs
LEMMA CookieAfterIs ==
  ASSUME ClientInv, NEW r \in Requests
  PROVE  CookieAfter(r) \in TokensUpTo(issued)
<1>1. jar \in TokensUpTo(issued) /\ req[r].gen \in TokensUpTo(issued) /\ Null \in TokensUpTo(issued)
  BY NullIsToken DEF ClientInv, RequestType
<1>2. QED BY <1>1 DEF CookieAfter

-----------------------------------------------------------------------------
(* What a step has to show *)

LEMMA ClientStarts == ClientInit => ClientInv
<1>1. SUFFICES ASSUME ClientInit PROVE ClientInv
  OBVIOUS
<1>2. MaxTokens \in Nat /\ MaxTokens > 0
  BY ClientAssumption
<1>3. ServerTypes(live, issued, expired, blocked)
  <2>1. live \subseteq {1} /\ issued = 1 /\ expired = {1} /\ blocked = FALSE
    BY <1>1 DEF ClientInit
  <2>2. 1 \in 1 .. 1 /\ 1 \in 1 .. MaxTokens
    BY <1>2
  <2>3. live \subseteq 1 .. 1 /\ expired \subseteq 1 .. 1
    BY <2>1, <2>2
  <2>4. QED BY <2>1, <2>2, <2>3 DEF ServerTypes
<1>4. jar \in TokensUpTo(issued) /\ token \in TokensUpTo(issued)
  BY <1>1 DEF ClientInit, TokensUpTo
<1>5. /\ req \in [Requests -> RequestType(issued)] /\ \A r \in Requests : req[r].at = "idle"
      /\ leader = Null
  <2>1. req = [r \in Requests |-> NoRequest] /\ leader = Null
    BY <1>1 DEF ClientInit
  <2>2. QED BY <2>1, NoRequestIs
<1>6. StoreTypes(isAuthenticated, isInitialized, persisted, current, boot, signin, signout, stale)
  BY <1>1 DEF ClientInit, StoreTypes
<1>7. QueueIsServed(req, leader)
  BY <1>5, NamesDiffer DEF QueueIsServed
<1>8. AwaitsItsRequest(req, boot, signin, signout)
  <2>1. boot = "start" /\ signin = "idle" /\ signout = "idle"
    BY <1>1 DEF ClientInit
  <2>2. QED BY <1>5, <2>1, NamesDiffer DEF AwaitsItsRequest
<1>9. OvertakenIsOver(boot, current, stale)
  BY <1>1 DEF ClientInit, OvertakenIsOver
<1>10. QED BY <1>3, <1>4, <1>5, <1>6, <1>7, <1>8, <1>9 DEF ClientInv

\* A step of which one request is all that moves.
LEMMA OneRequest ==
  ASSUME ClientInv, NEW r \in Requests, r # "silent", NEW x \in RequestType(issued),
         req' = [req EXCEPT ![r] = x], leader' = leader,
         req[r].at \notin {"queued", "leading"}, x.at \notin {"queued", "leading"}
  PROVE  /\ req' \in [Requests -> RequestType(issued)]
         /\ req'[r] = x /\ \A s \in Requests : s # r => req'[s] = req[s]
         /\ QueueIsServed(req', leader')
<1>1. req \in [Requests -> RequestType(issued)] /\ QueueIsServed(req, leader)
  BY DEF ClientInv
<1>2. req' \in [Requests -> RequestType(issued)]
      /\ req'[r] = x /\ \A s \in Requests : s # r => req'[s] = req[s]
  BY <1>1
<1>3. QueueIsServed(req', leader')
  <2>1. req'["silent"] = req["silent"]
    BY <1>2, NamesDiffer
  <2>2. r # leader
    BY <1>1 DEF QueueIsServed
  <2>3. ASSUME NEW s \in Requests
        PROVE  (req'[s].at = "leading" <=> s = leader) /\ (req'[s].at = "queued" => leader # Null)
    <3>1. CASE s = r
      BY <1>2, <2>2, <3>1
    <3>2. CASE s # r
      BY <1>1, <1>2, <3>2 DEF QueueIsServed
    <3>3. QED BY <3>1, <3>2
  <2>4. QED BY <1>1, <2>1, <2>3 DEF QueueIsServed
<1>4. QED BY <1>2, <1>3

\* The server, the cookie and the token go on within their types.
LEMMA ClientKept ==
  ASSUME ServerTypes(live', issued', expired', blocked'),
         jar' \in TokensUpTo(issued'), token' \in TokensUpTo(issued'),
         req' \in [Requests -> RequestType(issued')],
         StoreTypes(isAuthenticated', isInitialized', persisted', current', boot', signin',
                    signout', stale'),
         QueueIsServed(req', leader'), AwaitsItsRequest(req', boot', signin', signout'),
         OvertakenIsOver(boot', current', stale')
  PROVE  ClientInv'
BY DEF ClientInv

-----------------------------------------------------------------------------
(* The server *)

LEMMA OneMoreIssued ==
  ASSUME ServerTypes(live, issued, expired, blocked), issued < MaxTokens,
         NEW l, l \subseteq live, issued' = issued + 1, live' = l \cup {issued + 1},
         expired' = expired, blocked' = blocked
  PROVE  /\ ServerTypes(live', issued', expired', blocked')
         /\ issued' \in Nat /\ issued' >= issued /\ issued + 1 \in TokensUpTo(issued')
<1>1. MaxTokens \in Nat
  BY ClientAssumption
<1>2. issued \in Nat /\ issued >= 1
  BY <1>1 DEF ServerTypes
<1>3. 1 .. issued \subseteq 1 .. issued + 1 /\ issued + 1 \in 1 .. issued + 1
      /\ issued + 1 \in 1 .. MaxTokens
  BY <1>1, <1>2
<1>4. live \subseteq 1 .. issued /\ expired \subseteq 1 .. issued /\ blocked \in BOOLEAN
  BY DEF ServerTypes
<1>5. live' \subseteq 1 .. issued' /\ expired' \subseteq 1 .. issued'
  BY <1>3, <1>4
<1>6. QED BY <1>2, <1>3, <1>4, <1>5 DEF ServerTypes, TokensUpTo

\* TokensUpTo are issued, and a request is answered.
LEMMA AnswerKeeps ==
  ASSUME ClientInv, NEW r \in Requests, Answer(r)
  PROVE  ClientInv'
<1>1. /\ req[r].at = "sent" /\ UNCHANGED <<jar, token, leader>>
      /\ UNCHANGED <<isAuthenticated, isInitialized, persisted, current, boot, signin, signout, stale>>
  BY DEF Answer, store
<1>2. /\ ServerTypes(live, issued, expired, blocked) /\ req \in [Requests -> RequestType(issued)]
      /\ QueueIsServed(req, leader) /\ AwaitsItsRequest(req, boot, signin, signout)
      /\ jar \in TokensUpTo(issued) /\ token \in TokensUpTo(issued)
  BY DEF ClientInv
<1>3. issued \in Nat /\ MaxTokens \in Nat
  BY <1>2, ClientAssumption DEF ServerTypes
<1>4. PICK a \in {"ok", "401", "no"}, n \in TokensUpTo(issued') :
        /\ ServerTypes(live', issued', expired', blocked') /\ issued' \in Nat /\ issued' >= issued
        /\ Answered(r, a, n)
  <2>1. CASE AnswerRefresh(r)
    <3>1. CASE req[r].cookie \in live /\ ~ blocked /\ issued < MaxTokens
      <4>1. /\ issued' = issued + 1 /\ live' = (live \ {req[r].cookie}) \cup {issued + 1}
            /\ UNCHANGED <<expired, blocked>> /\ Answered(r, "ok", issued + 1)
        BY <2>1, <3>1 DEF AnswerRefresh
      <4>2. live \ {req[r].cookie} \subseteq live
        OBVIOUS
      <4>3. /\ ServerTypes(live', issued', expired', blocked')
            /\ issued' \in Nat /\ issued' >= issued /\ issued + 1 \in TokensUpTo(issued')
        BY ONLY <1>2, <3>1, <4>1, <4>2, OneMoreIssued
      <4>4. Answered(r, "ok", issued + 1)
        BY <4>1
      <4>5. QED BY <4>3, <4>4
    <3>2. CASE ~ (req[r].cookie \in live /\ ~ blocked /\ issued < MaxTokens)
      <4>1. /\ UNCHANGED <<live, issued, expired, blocked>>
            /\ Answered(r, IF blocked \/ req[r].cookie = Null THEN "no" ELSE "401", Null)
        BY <2>1, <3>2 DEF AnswerRefresh
      <4>2. Answered(r, "no", Null) \/ Answered(r, "401", Null)
        BY <4>1
      <4>3. ServerTypes(live', issued', expired', blocked') /\ issued' \in Nat /\ issued' >= issued
        BY <1>2, <1>3, <4>1
      <4>4. Null \in TokensUpTo(issued')
        BY NullIsToken
      <4>5. QED BY <4>2, <4>3, <4>4
    <3>3. QED BY <3>1, <3>2
  <2>2. CASE AnswerCall(r)
    <3>1. /\ UNCHANGED <<live, issued, expired, blocked>>
          /\ Answered(r, IF Accepted(req[r].token) THEN "ok" ELSE "401", Null)
      BY <2>2 DEF AnswerCall, server
    <3>2. QED BY <1>2, <1>3, <3>1, NullIsToken
  <2>3. CASE r = "login" /\ AnswerLogin
    <3>1. CASE Answered("login", "401", Null) /\ UNCHANGED server
      <4>1. UNCHANGED <<live, issued, expired, blocked>>
        BY <3>1 DEF server
      <4>2. QED BY <1>2, <1>3, <2>3, <3>1, <4>1, NullIsToken
    <3>2. CASE ~ (Answered("login", "401", Null) /\ UNCHANGED server)
      <4>1. /\ issued < MaxTokens /\ issued' = issued + 1 /\ live' = live \cup {issued + 1}
            /\ Answered("login", "ok", issued + 1) /\ UNCHANGED <<expired, blocked>>
        BY <2>3, <3>2 DEF AnswerLogin
      <4>2. /\ ServerTypes(live', issued', expired', blocked')
            /\ issued' \in Nat /\ issued' >= issued /\ issued + 1 \in TokensUpTo(issued')
        BY ONLY <1>2, <4>1, OneMoreIssued
      <4>3. Answered(r, "ok", issued + 1)
        BY <2>3, <4>1
      <4>4. QED BY <4>2, <4>3
    <3>3. QED BY <3>1, <3>2
  <2>4. CASE r = "logout" /\ AnswerLogout
    <3>1. /\ live' \subseteq live /\ UNCHANGED <<issued, expired, blocked>>
          /\ \E a \in {"ok", "401"} : Answered(r, a, Null)
      BY <2>4 DEF AnswerLogout
    <3>2. ServerTypes(live', issued', expired', blocked')
      BY <1>2, <3>1 DEF ServerTypes
    <3>3. QED BY <1>3, <3>1, <3>2, NullIsToken
  <2>5. QED BY <2>1, <2>2, <2>3, <2>4 DEF Answer
<1> DEFINE x == [req[r] EXCEPT !.at = "answered", !.token = Null, !.answer = a, !.gen = n]
<1>5. req' = [req EXCEPT ![r] = x]
  BY <1>2, <1>4 DEF Answered
<1>6. TokensUpTo(issued) \subseteq TokensUpTo(issued') /\ RequestType(issued) \subseteq RequestType(issued')
  BY <1>3, <1>4, TokensGrow
<1>7. x \in RequestType(issued') /\ x.at = "answered"
  <2> DEFINE y == req[r]
  <2>1. y \in RequestType(issued')
    BY <1>2, <1>6
  <2> HIDE DEF y
  <2>2. QED BY <1>4, <2>1, NullIsToken DEF RequestType, y
<1> HIDE DEF x
<1>8. req' \in [Requests -> RequestType(issued')] /\ req'[r] = x
      /\ \A s \in Requests : s # r => req'[s] = req[s]
  BY <1>2, <1>5, <1>6, <1>7
<1>9. QueueIsServed(req', leader')
  BY <1>1, <1>2, <1>7, <1>8, NamesDiffer DEF QueueIsServed
<1>10. AwaitsItsRequest(req', boot', signin', signout')
  BY <1>1, <1>2, <1>7, <1>8, NamesDiffer DEF AwaitsItsRequest
<1>11. jar' \in TokensUpTo(issued') /\ token' \in TokensUpTo(issued')
  BY <1>1, <1>2, <1>6
<1>12. /\ StoreTypes(isAuthenticated', isInitialized', persisted', current', boot', signin',
                     signout', stale')
       /\ OvertakenIsOver(boot', current', stale')
  BY <1>1 DEF ClientInv
<1>13. QED BY <1>4, <1>8, <1>9, <1>10, <1>11, <1>12, ClientKept

\* Access tokens expire, sessions end elsewhere.
LEMMA ServerKeeps ==
  ASSUME ClientInv, (\E t \in 1 .. MaxTokens : Expire(t)) \/ EndElsewhere
  PROVE  ClientInv'
<1>1. UNCHANGED <<issued, jar, token, req, leader, isAuthenticated, isInitialized, persisted,
                  current, boot, signin, signout, stale>>
  BY DEF Expire, EndElsewhere, store
<1>2. ServerTypes(live, issued, expired, blocked)
  BY DEF ClientInv
<1>3. ServerTypes(live', issued', expired', blocked')
  <2>1. CASE \E t \in 1 .. MaxTokens : Expire(t)
    BY <1>2, <2>1 DEF Expire, ServerTypes
  <2>2. CASE EndElsewhere
    BY <1>2, <2>2 DEF EndElsewhere, ServerTypes
  <2>3. QED BY <2>1, <2>2
<1>4. QED BY <1>1, <1>3 DEF ClientInv

\* While none of the awaited requests begins or ends, and the logout's does not
\* begin, the store has what it awaits.
LEMMA StillAwaited ==
  ASSUME AwaitsItsRequest(req, boot, signin, signout),
         boot' = boot, signin' = signin, signout' = signout,
         \A s \in Awaited : req'[s].at = "idle" <=> req[s].at = "idle",
         req["logout"].at = "idle" => req'["logout"].at = "idle"
  PROVE  AwaitsItsRequest(req', boot', signin', signout')
BY DEF AwaitsItsRequest, Awaited

\* The refresh and those that wait for it are left alone.
LEMMA QueueKept ==
  ASSUME ClientInv, leader' = leader, req'["silent"] = req["silent"],
         \A s \in Requests : \/ req'[s] = req[s]
                             \/ /\ req[s].at \notin {"queued", "leading"}
                                /\ req'[s].at \notin {"queued", "leading"}
  PROVE  QueueIsServed(req', leader')
<1>1. QueueIsServed(req, leader)
  BY DEF ClientInv
<1>2. ASSUME NEW s \in Requests
      PROVE  (req'[s].at = "leading" <=> s = leader) /\ (req'[s].at = "queued" => leader # Null)
  BY <1>1 DEF QueueIsServed
<1>3. QED BY <1>1, <1>2 DEF QueueIsServed

LEMMA StoreIsTyped ==
  ASSUME ClientInv
  PROVE  StoreTypes(isAuthenticated, isInitialized, persisted, current, boot, signin, signout, stale)
BY DEF ClientInv

\* Whatever a sign-out overtakes is not the latest operation afterwards.
LEMMA SignOutOvertakes ==
  ASSUME ClientInv, SignedOut, boot' \in {boot, "over"}
  PROVE  /\ token' \in TokensUpTo(issued) /\ OvertakenIsOver(boot', current', stale')
         /\ isAuthenticated' = FALSE /\ persisted' = FALSE /\ current' = "none"
         /\ stale' \subseteq {"boot", "login"}
<1>1. token' = Null /\ isAuthenticated' = FALSE /\ persisted' = FALSE /\ current' = "none"
      /\ stale' = InProgress
  BY DEF SignedOut
<1>2. InProgress \subseteq {"boot", "login"} /\ (boot = "start" => "boot" \notin InProgress)
  BY DEF InProgress
<1>3. boot' = "start" => boot = "start"
  OBVIOUS
<1>4. QED BY <1>1, <1>2, <1>3, NullIsToken DEF OvertakenIsOver

-----------------------------------------------------------------------------
(* The API client *)

LEMMA HeldKeeps ==
  ASSUME ClientInv, NEW r \in Requests, req[r].at = "answered", ReceiveHeld(r),
         jar' = CookieAfter(r), UNCHANGED server
  PROVE  ClientInv'
<1>1. /\ r \notin Skips /\ r # "silent"
      /\ UNCHANGED <<token, live, issued, expired, blocked>>
      /\ UNCHANGED <<isAuthenticated, isInitialized, persisted, current, boot, signin, signout, stale>>
  BY NamesDiffer DEF ReceiveHeld, HoldsBack, store, server
<1>2. /\ req \in [Requests -> RequestType(issued)] /\ QueueIsServed(req, leader)
      /\ AwaitsItsRequest(req, boot, signin, signout)
  BY DEF ClientInv
<1>3. CookieAfter(r) \in TokensUpTo(issued)
  BY CookieAfterIs
<1>4. /\ req' \in [Requests -> RequestType(issued)] /\ QueueIsServed(req', leader')
      /\ \A s \in Awaited : req'[s].at = "idle" <=> req[s].at = "idle"
      /\ req'["logout"] = req["logout"]
  <2>1. "logout" # r /\ "logout" # "silent"
    BY <1>1 DEF Skips
  <2>2. CASE leader # Null
    <3> DEFINE x == Held(r, "queued", FALSE)
    <3>1. req' = [req EXCEPT ![r] = x] /\ leader' = leader
      BY <2>2 DEF ReceiveHeld
    <3>2. x \in RequestType(issued) /\ x.at = "queued"
      BY HeldIs
    <3> HIDE DEF x
    <3>3. /\ req' \in [Requests -> RequestType(issued)]
          /\ req'[r] = x /\ \A s \in Requests : s # r => req'[s] = req[s]
      BY <1>2, <3>1, <3>2
    <3>4. QueueIsServed(req', leader')
      <4>1. req'["silent"] = req["silent"]
        BY <1>1, <3>3, NamesDiffer
      <4>2. ASSUME NEW s \in Requests
            PROVE  (req'[s].at = "leading" <=> s = leader) /\ (req'[s].at = "queued" => leader # Null)
        BY <1>2, <2>2, <3>2, <3>3 DEF QueueIsServed
      <4>3. QED BY <1>2, <3>1, <4>1, <4>2 DEF QueueIsServed
    <3>5. QED BY <2>1, <3>2, <3>3, <3>4, NamesDiffer
  <2>3. CASE leader = Null
    <3> DEFINE x == Held(r, "leading", TRUE)
               y == Sent("silent", Null, CookieAfter(r))
    <3>1. req' = [req EXCEPT ![r] = x, !["silent"] = y] /\ leader' = r
      BY <2>3 DEF ReceiveHeld
    <3>2. x \in RequestType(issued) /\ x.at = "leading"
      BY HeldIs
    <3>3. y \in RequestType(issued) /\ y.at = "sent"
      BY <1>2, <1>3, SentIs, NullIsToken, NamesDiffer
    <3> HIDE DEF x, y
    <3>4. /\ req' \in [Requests -> RequestType(issued)]
          /\ req'[r] = x /\ req'["silent"] = y
          /\ \A s \in Requests : s # r /\ s # "silent" => req'[s] = req[s]
      BY <1>1, <1>2, <3>1, <3>2, <3>3, NamesDiffer
    <3>5. QueueIsServed(req', leader')
      <4>1. ASSUME NEW s \in Requests
            PROVE  (req'[s].at = "leading" <=> s = r) /\ (req'[s].at = "queued" => r # Null)
        <5>1. req[s].at \notin {"leading", "queued"} /\ r # Null
          BY <1>2, <2>3, NamesDiffer DEF QueueIsServed
        <5>2. CASE s = r
          BY <3>2, <3>4, <5>1, <5>2
        <5>3. CASE s = "silent"
          BY <1>1, <3>3, <3>4, <5>3
        <5>4. CASE s # r /\ s # "silent"
          BY <3>4, <5>1, <5>4
        <5>5. QED BY <5>2, <5>3, <5>4
      <4>2. r \in Requests \ Skips /\ r # Null
        BY <1>1, NamesDiffer
      <4>3. QED BY <3>1, <3>3, <3>4, <4>1, <4>2 DEF QueueIsServed
    <3>6. ASSUME NEW s \in Awaited PROVE req'[s].at = "idle" <=> req[s].at = "idle"
      BY <3>2, <3>4, NamesDiffer
    <3>7. req'["logout"] = req["logout"]
      BY <2>1, <3>4, NamesDiffer
    <3>8. QED BY <3>4, <3>5, <3>6, <3>7
  <2>4. QED BY <2>2, <2>3
<1>5. AwaitsItsRequest(req', boot', signin', signout')
  BY <1>1, <1>2, <1>4, StillAwaited
<1>6. QED BY <1>1, <1>3, <1>4, <1>5 DEF ClientInv

\* A request that was out is over.
LEMMA OverKeeps ==
  ASSUME ClientInv, NEW r \in Requests, r # "silent", req[r].at \in {"sent", "answered"},
         NEW a \in {"none", "ok", "401", "no"}, req' = [req EXCEPT ![r] = Over(r, a)],
         jar' \in TokensUpTo(issued), UNCHANGED <<server, token, leader, store>>
  PROVE  ClientInv'
<1>1. /\ UNCHANGED <<token, leader, live, issued, expired, blocked>>
      /\ UNCHANGED <<isAuthenticated, isInitialized, persisted, current, boot, signin, signout, stale>>
  BY DEF store, server
<1>2. req \in [Requests -> RequestType(issued)] /\ AwaitsItsRequest(req, boot, signin, signout)
  BY DEF ClientInv
<1> DEFINE x == Over(r, a)
<1>3. /\ x \in RequestType(issued) /\ x.at \notin {"queued", "leading"}
      /\ r \in Awaited => x.at = "done"
      /\ r \notin Awaited => x.at = "idle"
  BY <1>2, OverIs
<1>4. req' = [req EXCEPT ![r] = x]
  OBVIOUS
<1> HIDE DEF x
<1>5. /\ req' \in [Requests -> RequestType(issued)]
      /\ req'[r] = x /\ \A s \in Requests : s # r => req'[s] = req[s]
      /\ QueueIsServed(req', leader')
  BY <1>1, <1>3, <1>4, OneRequest
<1>6. AwaitsItsRequest(req', boot', signin', signout')
  <2>1. \A s \in Awaited : req'[s].at = "idle" <=> req[s].at = "idle"
    BY <1>3, <1>5, NamesDiffer
  <2>2. req["logout"].at = "idle" => req'["logout"].at = "idle"
    BY <1>3, <1>5, NamesDiffer DEF Awaited
  <2>3. QED BY <1>1, <1>2, <2>1, <2>2, StillAwaited
<1>7. QED BY <1>1, <1>5, <1>6 DEF ClientInv

\* What the two ends of the silent refresh have in common: nobody waits any more.
LEMMA NobodyWaits ==
  ASSUME ClientInv, leader' = Null, req'["silent"] = NoRequest,
         \A s \in Requests : req'[s].at \notin {"queued", "leading"}
  PROVE  QueueIsServed(req', leader')
BY NoRequestIs, NamesDiffer DEF QueueIsServed

LEMMA SuccessKeeps ==
  ASSUME ClientInv, req["silent"].at = "answered", SilentSucceeds,
         jar' \in TokensUpTo(issued), UNCHANGED server
  PROVE  ClientInv'
<1>1. /\ UNCHANGED <<live, issued, expired, blocked>>
      /\ UNCHANGED <<isAuthenticated, isInitialized, persisted, current, boot, signin, signout, stale>>
  BY DEF SilentSucceeds, store, server
<1>2. req \in [Requests -> RequestType(issued)] /\ AwaitsItsRequest(req, boot, signin, signout)
  BY DEF ClientInv
<1> DEFINE t == req["silent"].gen
<1>3. t \in TokensUpTo(issued)
  BY <1>2, NamesDiffer DEF RequestType
<1> HIDE DEF t
<1>4. /\ token' = t /\ leader' = Null
      /\ req' = [s \in Requests |-> IF s \in Waiting THEN Sent(s, t, t)
                                    ELSE IF s = "silent" THEN NoRequest ELSE req[s]]
  BY DEF SilentSucceeds, t
<1>5. ASSUME NEW s \in Requests
      PROVE  /\ req'[s] \in RequestType(issued) /\ req'[s].at \notin {"queued", "leading"}
             /\ s # "silent" => (req'[s].at = "idle" <=> req[s].at = "idle")
  <2>1. CASE s \in Waiting
    <3>1. req'[s] = Sent(s, t, t)
      BY <1>4, <2>1
    <3>2. Sent(s, t, t) \in RequestType(issued) /\ Sent(s, t, t).at = "sent"
      BY <1>2, <1>3, SentIs
    <3>3. req[s].at # "idle"
      BY <2>1 DEF Waiting
    <3>4. QED BY <3>1, <3>2, <3>3
  <2>2. CASE s \notin Waiting /\ s = "silent"
    <3>1. req'[s] = NoRequest
      BY <1>4, <2>2
    <3>2. QED BY <2>2, <3>1, NoRequestIs
  <2>3. CASE s \notin Waiting /\ s # "silent"
    <3>1. req'[s] = req[s] /\ req[s] \in RequestType(issued)
      BY <1>2, <1>4, <2>3
    <3>2. req[s].at \notin {"queued", "leading"}
      BY <2>3 DEF Waiting
    <3>3. QED BY <3>1, <3>2
  <2>4. QED BY <2>1, <2>2, <2>3
<1>6. req'["silent"] = NoRequest
  <2>1. "silent" \notin Waiting
    BY DEF Waiting
  <2>2. QED BY <1>4, <2>1, NamesDiffer
<1>7. QueueIsServed(req', leader')
  BY <1>4, <1>5, <1>6, NobodyWaits
<1>8. AwaitsItsRequest(req', boot', signin', signout')
  <2>1. \A s \in Awaited : req'[s].at = "idle" <=> req[s].at = "idle"
    BY <1>5, NamesDiffer
  <2>2. req["logout"].at = "idle" => req'["logout"].at = "idle"
    BY <1>5, NamesDiffer
  <2>3. QED BY <1>1, <1>2, <2>1, <2>2, StillAwaited
<1>9. req' \in [Requests -> RequestType(issued)]
  BY <1>4, <1>5
<1>10. QED BY <1>1, <1>3, <1>4, <1>7, <1>8, <1>9 DEF ClientInv

LEMMA FailureKeeps ==
  ASSUME ClientInv, req["silent"].at \in {"sent", "answered"}, NEW a, SilentFails(a),
         jar' \in TokensUpTo(issued), UNCHANGED server
  PROVE  ClientInv'
<1>1. UNCHANGED <<live, issued, expired, blocked, isInitialized, boot, signin, signout>>
  BY DEF SilentFails, server
<1>2. req \in [Requests -> RequestType(issued)] /\ AwaitsItsRequest(req, boot, signin, signout)
  BY DEF ClientInv
<1>3. /\ leader' = Null
      /\ req' = [s \in Requests |-> IF s \in Rejected THEN Over(s, "no")
                                    ELSE IF s = "silent" THEN NoRequest ELSE req[s]]
  BY DEF SilentFails
<1>4. ASSUME NEW s \in Requests
      PROVE  /\ req'[s] \in RequestType(issued) /\ req'[s].at \notin {"queued", "leading"}
             /\ s \in Awaited => (req'[s].at = "idle" <=> req[s].at = "idle")
             /\ req[s].at = "idle" => req'[s].at = "idle"
  <2>1. CASE s \in Rejected
    <3>1. req'[s] = Over(s, "no")
      BY <1>3, <2>1
    <3>2. /\ Over(s, "no") \in RequestType(issued)
          /\ s \in Awaited => Over(s, "no").at = "done"
          /\ s \notin Awaited => Over(s, "no").at = "idle"
      BY <1>2, OverIs
    <3>3. req[s].at # "idle"
      BY <2>1 DEF Rejected
    <3>4. QED BY <3>1, <3>2, <3>3
  <2>2. CASE s \notin Rejected /\ s = "silent"
    <3>1. req'[s] = NoRequest
      BY <1>3, <2>2
    <3>2. QED BY <2>2, <3>1, NoRequestIs, NamesDiffer
  <2>3. CASE s \notin Rejected /\ s # "silent"
    <3>1. req'[s] = req[s] /\ req[s] \in RequestType(issued)
      BY <1>2, <1>3, <2>3
    <3>2. req[s].at \notin {"queued", "leading"}
      BY <2>3 DEF Rejected
    <3>3. QED BY <3>1, <3>2
  <2>4. QED BY <2>1, <2>2, <2>3
<1>5. req'["silent"] = NoRequest
  <2>1. "silent" \notin Rejected
    BY DEF Rejected
  <2>2. QED BY <1>3, <2>1, NamesDiffer
<1>6. QueueIsServed(req', leader')
  BY <1>3, <1>4, <1>5, NobodyWaits
<1>7. AwaitsItsRequest(req', boot', signin', signout')
  <2>1. \A s \in Awaited : req'[s].at = "idle" <=> req[s].at = "idle"
    BY <1>4, NamesDiffer
  <2>2. req["logout"].at = "idle" => req'["logout"].at = "idle"
    BY <1>4, NamesDiffer
  <2>3. QED BY <1>1, <1>2, <2>1, <2>2, StillAwaited
<1>8. req' \in [Requests -> RequestType(issued)]
  BY <1>3, <1>4
<1>9. /\ token' \in TokensUpTo(issued) /\ OvertakenIsOver(boot', current', stale')
      /\ StoreTypes(isAuthenticated', isInitialized', persisted', current', boot', signin',
                    signout', stale')
  <2>1. CASE isAuthenticated
    <3>1. SignedOut
      BY <2>1 DEF SilentFails
    <3>2. QED BY <1>1, <3>1, SignOutOvertakes, StoreIsTyped DEF StoreTypes
  <2>2. CASE ~ isAuthenticated
    <3>1. token' = Null /\ persisted' = FALSE /\ UNCHANGED <<isAuthenticated, current, stale>>
      BY <2>2 DEF SilentFails
    <3>2. OvertakenIsOver(boot, current, stale)
      BY DEF ClientInv
    <3>3. QED BY <1>1, <3>1, <3>2, NullIsToken, StoreIsTyped DEF StoreTypes
  <2>3. QED BY <2>1, <2>2
<1>10. QED BY <1>1, <1>6, <1>7, <1>8, <1>9 DEF ClientInv

LEMMA ReceiveKeeps ==
  ASSUME ClientInv, NEW r \in Requests, Receive(r)
  PROVE  ClientInv'
<1>1. req[r].at = "answered" /\ jar' = CookieAfter(r) /\ UNCHANGED server
  BY DEF Receive
<1>2. jar' \in TokensUpTo(issued)
  BY <1>1, CookieAfterIs
<1>3. CASE ReceiveHeld(r)
  BY <1>1, <1>3, HeldKeeps
<1>4. CASE ReceiveOther(r)
  <2>1. /\ r # "silent" /\ req' = [req EXCEPT ![r] = Over(r, req[r].answer)]
        /\ UNCHANGED <<token, leader, store>>
    BY <1>4 DEF ReceiveOther
  <2>2. req[r].answer \in {"none", "ok", "401", "no"}
    BY DEF ClientInv, RequestType
  <2>3. QED BY <1>1, <1>2, <2>1, <2>2, OverKeeps
<1>5. CASE r = "silent" /\ SilentSucceeds
  BY <1>1, <1>2, <1>5, SuccessKeeps
<1>6. CASE r = "silent" /\ SilentFails(req[r].answer)
  BY <1>1, <1>2, <1>6, FailureKeeps
<1>7. QED BY <1>3, <1>4, <1>5, <1>6 DEF Receive

LEMMA TimeOutKeeps ==
  ASSUME ClientInv, NEW r \in Requests, TimeOut(r)
  PROVE  ClientInv'
<1>1. /\ req[r].at \in {"sent", "answered"} /\ UNCHANGED <<server, jar>>
      /\ jar \in TokensUpTo(issued)
  BY DEF TimeOut, ClientInv
<1>2. CASE r = "silent" /\ SilentFails("no")
  BY <1>1, <1>2, FailureKeeps
<1>3. CASE r # "silent" /\ req' = [req EXCEPT ![r] = Over(r, "no")]
           /\ UNCHANGED <<token, leader, store>>
  BY <1>1, <1>3, OverKeeps
<1>4. QED BY <1>2, <1>3 DEF TimeOut

\* A page's request has no part in what the store awaits.
LEMMA CallKeeps ==
  ASSUME ClientInv, NEW c \in Calls, Call(c)
  PROVE  ClientInv'
<1>1. /\ req[c].at = "idle" /\ UNCHANGED <<jar, token, leader, live, issued, expired, blocked>>
      /\ UNCHANGED <<isAuthenticated, isInitialized, persisted, current, boot, signin, signout, stale>>
  BY DEF Call, store, server
<1>2. /\ req \in [Requests -> RequestType(issued)] /\ AwaitsItsRequest(req, boot, signin, signout)
      /\ jar \in TokensUpTo(issued) /\ token \in TokensUpTo(issued)
  BY DEF ClientInv
<1>3. c \in Requests /\ c # "silent" /\ c # "logout" /\ c \notin Awaited
  BY NamesDiffer
<1> DEFINE x == NewRequest(c, token)
<1>4. x \in RequestType(issued) /\ x.at = "sent"
  BY <1>2, <1>3, NewRequestIs
<1>5. req' = [req EXCEPT ![c] = x]
  BY DEF Call
<1> HIDE DEF x
<1>6. /\ req' \in [Requests -> RequestType(issued)]
      /\ req'[c] = x /\ \A s \in Requests : s # c => req'[s] = req[s]
      /\ QueueIsServed(req', leader')
  BY <1>1, <1>3, <1>4, <1>5, OneRequest
<1>7. AwaitsItsRequest(req', boot', signin', signout')
  <2>1. (\A s \in Awaited : req'[s] = req[s]) /\ req'["logout"] = req["logout"]
    BY <1>3, <1>6, NamesDiffer
  <2>2. QED BY <1>1, <1>2, <2>1, StillAwaited
<1>8. QED BY <1>1, <1>6, <1>7 DEF ClientInv

-----------------------------------------------------------------------------
(* The store *)

\* What is known of the state before a task of the store.
LEMMA BeforeTask ==
  ASSUME ClientInv
  PROVE  /\ req \in [Requests -> RequestType(issued)] /\ \A r \in Requests : req[r].gen \in TokensUpTo(issued)
         /\ jar \in TokensUpTo(issued) /\ token \in TokensUpTo(issued) /\ Null \in TokensUpTo(issued)
         /\ AwaitsItsRequest(req, boot, signin, signout) /\ QueueIsServed(req, leader)
         /\ OvertakenIsOver(boot, current, stale)
         /\ StoreTypes(isAuthenticated, isInitialized, persisted, current, boot, signin, signout, stale)
BY NullIsToken DEF ClientInv, RequestType

\* A task of the store changes neither the server nor the cookie.
LEMMA AfterTask ==
  ASSUME ClientInv, UNCHANGED <<server, jar>>, token' \in TokensUpTo(issued),
         req' \in [Requests -> RequestType(issued)],
         StoreTypes(isAuthenticated', isInitialized', persisted', current', boot', signin',
                    signout', stale'),
         QueueIsServed(req', leader'), AwaitsItsRequest(req', boot', signin', signout'),
         OvertakenIsOver(boot', current', stale')
  PROVE  ClientInv'
BY DEF ClientInv, server

\* The store sends or takes up requests of its own, which neither the refresh
\* nor those that wait for it are.
LEMMA StoreRequest ==
  ASSUME ClientInv, leader' = leader, NEW r \in Awaited \cup {"logout"},
         req[r].at \notin {"queued", "leading"}, NEW x \in RequestType(issued),
         x.at \notin {"queued", "leading"}, req' = [req EXCEPT ![r] = x]
  PROVE  /\ req' \in [Requests -> RequestType(issued)] /\ QueueIsServed(req', leader')
         /\ req'[r] = x /\ \A s \in Awaited \cup {"logout"} : s # r => req'[s] = req[s]
<1>1. r \in Requests /\ r # "silent" /\ Awaited \cup {"logout"} \subseteq Requests
  BY NamesDiffer
<1>2. QED BY <1>1, OneRequest

LEMMA StartKeeps ==
  ASSUME ClientInv, Start
  PROVE  ClientInv'
<1>1. /\ boot = "start" /\ current' = "boot"
      /\ UNCHANGED <<server, jar, leader, persisted, signin, signout, stale>>
  BY DEF Start
<1>2. OvertakenIsOver(boot', current', stale') /\ stale' = stale
  BY <1>1, BeforeTask DEF OvertakenIsOver
<1>3. req["boot"].at = "idle" /\ req["profile"].at = "idle"
  BY <1>1, BeforeTask DEF AwaitsItsRequest
<1>4. CASE persisted
  <2> DEFINE x == NewRequest("boot", Null)
  <2>1. /\ boot' = "refresh" /\ UNCHANGED <<token, isInitialized, isAuthenticated>>
        /\ req' = [req EXCEPT !["boot"] = x]
    BY <1>4 DEF Start
  <2>2. x \in RequestType(issued) /\ x.at = "sent"
    BY BeforeTask, NewRequestIs, NamesDiffer
  <2> HIDE DEF x
  <2>3. /\ req' \in [Requests -> RequestType(issued)] /\ QueueIsServed(req', leader')
        /\ req'["boot"] = x
        /\ \A s \in Awaited \cup {"logout"} : s # "boot" => req'[s] = req[s]
    BY <1>1, <1>3, <2>1, <2>2, StoreRequest, NamesDiffer
  <2>4. AwaitsItsRequest(req', boot', signin', signout')
    BY <1>1, <1>3, <2>1, <2>2, <2>3, BeforeTask DEF AwaitsItsRequest, Awaited
  <2>5. StoreTypes(isAuthenticated', isInitialized', persisted', current', boot', signin',
                   signout', stale')
    BY <1>1, <2>1, StoreIsTyped DEF StoreTypes
  <2>6. QED BY <1>1, <1>2, <2>1, <2>3, <2>4, <2>5, BeforeTask, AfterTask
<1>5. CASE ~ persisted
  <2>1. boot' = "over" /\ token' = Null /\ isInitialized' = TRUE /\ isAuthenticated' = FALSE
        /\ UNCHANGED req
    BY <1>5 DEF Start
  <2>2. AwaitsItsRequest(req', boot', signin', signout')
    BY <1>1, <2>1, BeforeTask DEF AwaitsItsRequest
  <2>3. QueueIsServed(req', leader')
    BY <1>1, <2>1, BeforeTask
  <2>4. StoreTypes(isAuthenticated', isInitialized', persisted', current', boot', signin',
                   signout', stale')
    BY <1>1, <2>1, StoreIsTyped DEF StoreTypes
  <2>5. QED BY <1>1, <1>2, <2>1, <2>2, <2>3, <2>4, BeforeTask, AfterTask
<1>6. QED BY <1>4, <1>5

\* An operation that ends, or gives up, or finds itself superseded.
LEMMA BootFailsKeeps ==
  ASSUME ClientInv, BootFails, UNCHANGED <<signin, signout>>
  PROVE  /\ boot' = "over" /\ token' \in TokensUpTo(issued) /\ OvertakenIsOver(boot', current', stale')
         /\ StoreTypes(isAuthenticated', isInitialized', persisted', current', boot', signin',
                       signout', stale')
<1>1. boot' = "over"
  BY DEF BootFails
<1>2. CASE IsCurrent("boot")
  <2>1. SignedOut /\ isInitialized' = TRUE
    BY <1>2 DEF BootFails
  <2>2. QED BY <1>1, <2>1, SignOutOvertakes, StoreIsTyped DEF StoreTypes
<1>3. CASE ~ IsCurrent("boot")
  <2>1. UNCHANGED <<token, persisted, isAuthenticated, current, stale, isInitialized>>
    BY <1>3 DEF BootFails
  <2>2. OvertakenIsOver(boot', current', stale')
    BY <1>1, <2>1, BeforeTask DEF OvertakenIsOver
  <2>3. QED BY <1>1, <2>1, <2>2, BeforeTask DEF StoreTypes
<1>4. QED BY <1>2, <1>3

LEMMA BootHydratesKeeps ==
  ASSUME ClientInv, NEW ok \in BOOLEAN, BootHydrates(ok), UNCHANGED <<signin, signout>>
  PROVE  /\ boot' = "over" /\ token' \in TokensUpTo(issued) /\ OvertakenIsOver(boot', current', stale')
         /\ StoreTypes(isAuthenticated', isInitialized', persisted', current', boot', signin',
                       signout', stale')
<1>1. boot' = "over" /\ UNCHANGED <<token, current, stale>>
  BY DEF BootHydrates
<1>2. OvertakenIsOver(boot', current', stale')
  BY <1>1, BeforeTask DEF OvertakenIsOver
<1>3. isAuthenticated' \in BOOLEAN /\ isInitialized' \in BOOLEAN /\ persisted' \in BOOLEAN
  <2>1. isAuthenticated \in BOOLEAN /\ isInitialized \in BOOLEAN /\ persisted \in BOOLEAN
    BY StoreIsTyped DEF StoreTypes
  <2>2. CASE IsCurrent("boot")
    BY <2>1, <2>2 DEF BootHydrates
  <2>3. CASE ~ IsCurrent("boot")
    BY <2>1, <2>3 DEF BootHydrates
  <2>4. QED BY <2>2, <2>3
<1>4. QED BY <1>1, <1>2, <1>3, BeforeTask DEF StoreTypes

LEMMA BootTimeoutKeeps ==
  ASSUME ClientInv, BootTimeout
  PROVE  ClientInv'
<1>1. UNCHANGED <<server, jar, req, leader, signin, signout>>
  BY DEF BootTimeout
<1>2. /\ boot' = "over" /\ token' \in TokensUpTo(issued) /\ OvertakenIsOver(boot', current', stale')
      /\ StoreTypes(isAuthenticated', isInitialized', persisted', current', boot', signin',
                    signout', stale')
  <2>1. CASE boot = "refresh" /\ BootFails
    BY <1>1, <2>1, BootFailsKeeps
  <2>2. CASE boot = "profile" /\ BootHydrates(FALSE)
    BY <1>1, <2>2, BootHydratesKeeps
  <2>3. QED BY <2>1, <2>2 DEF BootTimeout
<1>3. AwaitsItsRequest(req', boot', signin', signout') /\ QueueIsServed(req', leader')
  BY <1>1, <1>2, BeforeTask DEF AwaitsItsRequest
<1>4. QED BY <1>1, <1>2, <1>3, BeforeTask, AfterTask

\* The answer of an awaited request is taken up.
LEMMA ConsumeIs ==
  ASSUME ClientInv, NEW r \in Awaited, req[r].at = "done", Consume(r), leader' = leader
  PROVE  /\ req' \in [Requests -> RequestType(issued)] /\ QueueIsServed(req', leader')
         /\ req'[r].at = "idle" /\ \A s \in Awaited \cup {"logout"} : s # r => req'[s] = req[s]
<1> DEFINE x == NoRequest
<1>1. x \in RequestType(issued) /\ x.at = "idle" /\ req' = [req EXCEPT ![r] = x]
  BY NoRequestIs DEF Consume
<1> HIDE DEF x
<1>2. QED BY <1>1, StoreRequest

LEMMA ContinueBootKeeps ==
  ASSUME ClientInv, ContinueBoot
  PROVE  ClientInv'
<1>1. req["boot"].at = "done" /\ UNCHANGED <<server, jar, leader, signin, signout>>
  BY DEF ContinueBoot
<1>2. boot # "start" /\ "boot" \in Awaited /\ "profile" \in Awaited
  BY <1>1, BeforeTask, NamesDiffer DEF AwaitsItsRequest
<1>3. ASSUME Consume("boot"), boot' = "over" \/ (boot' = boot /\ boot # "refresh")
      PROVE  /\ req' \in [Requests -> RequestType(issued)] /\ QueueIsServed(req', leader')
             /\ AwaitsItsRequest(req', boot', signin', signout')
  <2>1. /\ req' \in [Requests -> RequestType(issued)] /\ QueueIsServed(req', leader')
        /\ req'["boot"].at = "idle"
        /\ \A s \in Awaited \cup {"logout"} : s # "boot" => req'[s] = req[s]
    BY <1>1, <1>2, <1>3, ConsumeIs
  <2>2. AwaitsItsRequest(req', boot', signin', signout')
    BY <1>1, <1>2, <1>3, <2>1, BeforeTask DEF AwaitsItsRequest, Awaited
  <2>3. QED BY <2>1, <2>2
<1>4. CASE BootFails /\ Consume("boot")
  <2>1. boot' = "over"
    BY <1>4 DEF BootFails
  <2>2. QED BY <1>1, <1>3, <1>4, <2>1, BootFailsKeeps, BeforeTask, AfterTask
<1>5. CASE /\ boot' = "over" /\ Consume("boot")
           /\ UNCHANGED <<token, persisted, isAuthenticated, current, stale, isInitialized>>
  <2>1. OvertakenIsOver(boot', current', stale')
    BY <1>5, BeforeTask DEF OvertakenIsOver
  <2>2. StoreTypes(isAuthenticated', isInitialized', persisted', current', boot', signin',
                   signout', stale')
    BY <1>1, <1>5, StoreIsTyped DEF StoreTypes
  <2>3. QED BY <1>1, <1>3, <1>5, <2>1, <2>2, BeforeTask, AfterTask
<1>6. CASE /\ boot = "refresh" /\ boot' = "profile" /\ token' = req["boot"].gen
           /\ req' = [req EXCEPT !["boot"] = NoRequest,
                                 !["profile"] = NewRequest("profile", req["boot"].gen)]
           /\ UNCHANGED <<persisted, isAuthenticated, current, stale, isInitialized>>
  <2> DEFINE x == NewRequest("profile", req["boot"].gen)
  <2>1. req["boot"].gen \in TokensUpTo(issued) /\ req["profile"].at = "idle"
    BY <1>6, BeforeTask, NamesDiffer DEF AwaitsItsRequest
  <2>2. x \in RequestType(issued) /\ x.at = "sent"
    BY <2>1, BeforeTask, NewRequestIs, NamesDiffer
  <2> HIDE DEF x
  <2>3. /\ req' \in [Requests -> RequestType(issued)]
        /\ req'["boot"] = NoRequest /\ req'["profile"] = x
        /\ \A s \in Requests : s # "boot" /\ s # "profile" => req'[s] = req[s]
    BY <1>6, <2>2, BeforeTask, NoRequestIs, NamesDiffer DEF x
  <2>4. QueueIsServed(req', leader')
    <3>1. req'["silent"] = req["silent"]
      BY <2>3, NamesDiffer
    <3>2. ASSUME NEW s \in Requests
          PROVE  \/ req'[s] = req[s]
                 \/ /\ req[s].at \notin {"queued", "leading"}
                    /\ req'[s].at \notin {"queued", "leading"}
      BY <1>1, <2>1, <2>2, <2>3, NoRequestIs
    <3>3. QED BY <1>1, <3>1, <3>2, QueueKept
  <2>5. AwaitsItsRequest(req', boot', signin', signout')
    <3>1. /\ req'["login"] = req["login"] /\ req'["bye"] = req["bye"]
          /\ req'["logout"] = req["logout"]
      BY <2>3, NamesDiffer
    <3>2. QED BY <1>1, <1>6, <2>2, <2>3, <3>1, BeforeTask DEF AwaitsItsRequest
  <2>6. OvertakenIsOver(boot', current', stale')
    BY <1>6, BeforeTask DEF OvertakenIsOver
  <2>7. StoreTypes(isAuthenticated', isInitialized', persisted', current', boot', signin',
                   signout', stale')
    BY <1>1, <1>6, StoreIsTyped DEF StoreTypes
  <2>8. QED BY <1>1, <1>6, <2>1, <2>3, <2>4, <2>5, <2>6, <2>7, AfterTask
<1>7. CASE /\ boot # "refresh" /\ Consume("boot")
           /\ UNCHANGED <<boot, token, persisted, isAuthenticated, current, stale, isInitialized>>
  <2>1. StoreTypes(isAuthenticated', isInitialized', persisted', current', boot', signin',
                   signout', stale') /\ OvertakenIsOver(boot', current', stale')
    BY <1>1, <1>7, BeforeTask
  <2>2. QED BY <1>1, <1>3, <1>7, <2>1, BeforeTask, AfterTask
<1>8. QED BY <1>4, <1>5, <1>6, <1>7 DEF ContinueBoot

LEMMA ContinueProfileKeeps ==
  ASSUME ClientInv, ContinueProfile
  PROVE  ClientInv'
<1>1. /\ req["profile"].at = "done" /\ Consume("profile")
      /\ UNCHANGED <<server, jar, leader, signin, signout>>
  BY DEF ContinueProfile
<1>2. /\ req' \in [Requests -> RequestType(issued)] /\ QueueIsServed(req', leader')
      /\ req'["profile"].at = "idle"
      /\ \A s \in Awaited \cup {"logout"} : s # "profile" => req'[s] = req[s]
  BY <1>1, ConsumeIs, NamesDiffer
<1>3. CASE boot = "profile" /\ BootHydrates(req["profile"].answer = "ok")
  <2>1. /\ boot' = "over" /\ token' \in TokensUpTo(issued) /\ OvertakenIsOver(boot', current', stale')
        /\ StoreTypes(isAuthenticated', isInitialized', persisted', current', boot', signin',
                      signout', stale')
    BY <1>1, <1>3, BootHydratesKeeps
  <2>2. AwaitsItsRequest(req', boot', signin', signout')
    BY <1>1, <1>2, <2>1, BeforeTask DEF AwaitsItsRequest, Awaited
  <2>3. QED BY <1>1, <1>2, <2>1, <2>2, AfterTask
<1>4. CASE /\ boot # "profile"
           /\ UNCHANGED <<boot, token, isAuthenticated, isInitialized, persisted, current, stale>>
  <2>1. AwaitsItsRequest(req', boot', signin', signout')
    BY <1>1, <1>2, <1>4, BeforeTask DEF AwaitsItsRequest, Awaited
  <2>2. StoreTypes(isAuthenticated', isInitialized', persisted', current', boot', signin',
                   signout', stale') /\ OvertakenIsOver(boot', current', stale')
    BY <1>1, <1>4, BeforeTask
  <2>3. QED BY <1>1, <1>2, <1>4, <2>1, <2>2, BeforeTask, AfterTask
<1>5. QED BY <1>3, <1>4 DEF ContinueProfile

LEMMA LoginKeeps ==
  ASSUME ClientInv, Login
  PROVE  ClientInv'
<1>1. /\ signin = "idle" /\ signin' = "wait" /\ current' = "login" /\ stale' = stale \ {"login"}
      /\ req' = [req EXCEPT !["login"] = NewRequest("login", Null)]
      /\ UNCHANGED <<server, jar, token, leader, isAuthenticated, isInitialized, persisted, boot, signout>>
  BY DEF Login
<1> DEFINE x == NewRequest("login", Null)
<1>2. req["login"].at = "idle"
  BY <1>1, BeforeTask DEF AwaitsItsRequest
<1>3. x \in RequestType(issued) /\ x.at = "sent"
  BY BeforeTask, NewRequestIs, NamesDiffer
<1> HIDE DEF x
<1>4. /\ req' \in [Requests -> RequestType(issued)] /\ QueueIsServed(req', leader')
      /\ req'["login"] = x
      /\ \A s \in Awaited \cup {"logout"} : s # "login" => req'[s] = req[s]
  <2>1. req' = [req EXCEPT !["login"] = x] /\ leader' = leader
    BY <1>1 DEF x
  <2>2. QED BY <1>2, <1>3, <2>1, StoreRequest, NamesDiffer
<1>5. AwaitsItsRequest(req', boot', signin', signout')
  BY <1>1, <1>3, <1>4, BeforeTask DEF AwaitsItsRequest, Awaited
<1>6. OvertakenIsOver(boot', current', stale')
  BY <1>1, BeforeTask DEF OvertakenIsOver
<1>7. StoreTypes(isAuthenticated', isInitialized', persisted', current', boot', signin',
                 signout', stale')
  BY <1>1, StoreIsTyped DEF StoreTypes
<1>8. QED BY <1>1, <1>4, <1>5, <1>6, <1>7, BeforeTask, AfterTask

LEMMA ContinueLoginKeeps ==
  ASSUME ClientInv, ContinueLogin
  PROVE  ClientInv'
<1>1. /\ req["login"].at = "done" /\ Consume("login") /\ signin' = "idle"
      /\ UNCHANGED <<server, jar, leader, isInitialized, current, boot, signout, stale>>
  BY DEF ContinueLogin
<1>2. /\ req' \in [Requests -> RequestType(issued)] /\ QueueIsServed(req', leader')
      /\ req'["login"].at = "idle"
      /\ \A s \in Awaited \cup {"logout"} : s # "login" => req'[s] = req[s]
  BY <1>1, ConsumeIs, NamesDiffer
<1>3. token' \in TokensUpTo(issued) /\ persisted' \in BOOLEAN /\ isAuthenticated' \in BOOLEAN
  <2>1. /\ token \in TokensUpTo(issued) /\ req["login"].gen \in TokensUpTo(issued)
        /\ persisted \in BOOLEAN /\ isAuthenticated \in BOOLEAN
    BY BeforeTask, NamesDiffer DEF StoreTypes
  <2>2. CASE req["login"].answer = "ok" /\ IsCurrent("login")
    BY <2>1, <2>2 DEF ContinueLogin
  <2>3. CASE ~ (req["login"].answer = "ok" /\ IsCurrent("login"))
    BY <2>1, <2>3 DEF ContinueLogin
  <2>4. QED BY <2>2, <2>3
<1>4. AwaitsItsRequest(req', boot', signin', signout')
  BY <1>1, <1>2, BeforeTask DEF AwaitsItsRequest, Awaited
<1>5. OvertakenIsOver(boot', current', stale')
  BY <1>1, BeforeTask
<1>6. StoreTypes(isAuthenticated', isInitialized', persisted', current', boot', signin',
                 signout', stale')
  BY <1>1, <1>3, StoreIsTyped DEF StoreTypes
<1>7. QED BY <1>1, <1>2, <1>3, <1>4, <1>5, <1>6, AfterTask

\* The logout request goes out, and nobody awaits it.
LEMMA GoodbyeIs ==
  ASSUME ClientInv, NEW t \in TokensUpTo(issued), NEW marked \in BOOLEAN,
         SayGoodbye("bye", t, marked), leader' = leader
  PROVE  /\ req' \in [Requests -> RequestType(issued)] /\ QueueIsServed(req', leader')
         /\ req'["bye"].at = "idle" /\ \A s \in Awaited : s # "bye" => req'[s] = req[s]
<1> DEFINE x == NewRequest("logout", t)
           y == IF t # Null \/ marked THEN x ELSE req["logout"]
<1>1. x \in RequestType(issued) /\ x.at = "sent"
  BY BeforeTask, NewRequestIs, NamesDiffer
<1>2. "bye" \in Requests /\ "logout" \in Requests /\ "silent" \in Requests /\ "logout" \notin Awaited
  BY NamesDiffer DEF Awaited
<1>3. req' = [req EXCEPT !["bye"] = NoRequest, !["logout"] = y]
  BY BeforeTask, <1>2 DEF SayGoodbye
<1>4. y \in RequestType(issued) /\ (y = req["logout"] \/ y.at = "sent")
  BY <1>1, <1>2, BeforeTask
<1> HIDE DEF x, y
<1>5. /\ req' \in [Requests -> RequestType(issued)] /\ req'["bye"] = NoRequest /\ req'["logout"] = y
      /\ \A s \in Requests : s # "bye" /\ s # "logout" => req'[s] = req[s]
  BY <1>2, <1>3, <1>4, BeforeTask, NoRequestIs
<1>6. QueueIsServed(req', leader')
  <2>1. ASSUME NEW s \in {"bye", "logout"} PROVE s # leader
    BY BeforeTask, <1>2, NamesDiffer DEF QueueIsServed, Skips
  <2>2. req'["silent"] = req["silent"]
    BY <1>2, <1>5
  <2>3. ASSUME NEW s \in Requests
        PROVE  (req'[s].at = "leading" <=> s = leader) /\ (req'[s].at = "queued" => leader # Null)
    BY <1>4, <1>5, <2>1, BeforeTask, NoRequestIs DEF QueueIsServed
  <2>4. QED BY <2>2, <2>3, BeforeTask DEF QueueIsServed
<1>7. QED BY <1>2, <1>5, <1>6, NoRequestIs, NamesDiffer

LEMMA LogoutKeeps ==
  ASSUME ClientInv, Logout
  PROVE  ClientInv'
<1>1. /\ boot # "start" /\ signout = "idle" /\ req["logout"].at = "idle"
      /\ UNCHANGED <<server, jar, leader, isInitialized, boot, signin>>
  BY DEF Logout
<1>2. req["bye"].at = "idle"
  BY <1>1, BeforeTask DEF AwaitsItsRequest
<1>3. CASE token # Null /\ token \in expired
  <2> DEFINE x == NewRequest("bye", Null)
  <2>1. /\ signout' = IF persisted THEN "marked" ELSE "unmarked"
        /\ current' = "logout" /\ req' = [req EXCEPT !["bye"] = x]
        /\ UNCHANGED <<token, persisted, isAuthenticated, stale>>
    BY <1>3 DEF Logout
  <2>2. x \in RequestType(issued) /\ x.at = "sent"
    BY BeforeTask, NewRequestIs, NamesDiffer
  <2> HIDE DEF x
  <2>3. /\ req' \in [Requests -> RequestType(issued)] /\ QueueIsServed(req', leader')
        /\ req'["bye"] = x
        /\ \A s \in Awaited \cup {"logout"} : s # "bye" => req'[s] = req[s]
    BY <1>1, <1>2, <2>1, <2>2, StoreRequest, NamesDiffer
  <2>4. AwaitsItsRequest(req', boot', signin', signout')
    BY <1>1, <2>1, <2>2, <2>3, BeforeTask DEF AwaitsItsRequest, Awaited
  <2>5. OvertakenIsOver(boot', current', stale')
    BY <1>1, <2>1, BeforeTask DEF OvertakenIsOver
  <2>6. StoreTypes(isAuthenticated', isInitialized', persisted', current', boot', signin',
                   signout', stale')
    BY <1>1, <2>1, StoreIsTyped DEF StoreTypes
  <2>7. QED BY <1>1, <2>1, <2>3, <2>4, <2>5, <2>6, BeforeTask, AfterTask
<1>4. CASE ~ (token # Null /\ token \in expired)
  <2>1. SayGoodbye("bye", token, persisted) /\ SignedOut /\ UNCHANGED signout
    BY <1>4 DEF Logout
  <2>2. /\ req' \in [Requests -> RequestType(issued)] /\ QueueIsServed(req', leader')
        /\ req'["bye"].at = "idle" /\ \A s \in Awaited : s # "bye" => req'[s] = req[s]
    BY <1>1, <2>1, GoodbyeIs, BeforeTask DEF StoreTypes
  <2>3. AwaitsItsRequest(req', boot', signin', signout')
    BY <1>1, <2>1, <2>2, BeforeTask DEF AwaitsItsRequest, Awaited
  <2>4. token' \in TokensUpTo(issued) /\ OvertakenIsOver(boot', current', stale')
        /\ StoreTypes(isAuthenticated', isInitialized', persisted', current', boot', signin',
                      signout', stale')
    BY <1>1, <2>1, SignOutOvertakes, StoreIsTyped DEF StoreTypes
  <2>5. QED BY <1>1, <2>2, <2>3, <2>4, AfterTask
<1>5. QED BY <1>3, <1>4

LEMMA ContinueLogoutKeeps ==
  ASSUME ClientInv, ContinueLogout
  PROVE  ClientInv'
<1>1. /\ req["bye"].at = "done" /\ signout' = "idle"
      /\ UNCHANGED <<server, jar, leader, isInitialized, boot, signin>>
  BY DEF ContinueLogout
<1>2. CASE IsCurrent("logout")
  <2> DEFINE t == IF req["bye"].answer = "ok" THEN req["bye"].gen ELSE token
  <2>1. t \in TokensUpTo(issued) /\ (signout = "marked") \in BOOLEAN
    BY BeforeTask, NamesDiffer
  <2>2. SayGoodbye("bye", t, signout = "marked") /\ SignedOut
    BY <1>2 DEF ContinueLogout
  <2> HIDE DEF t
  <2>3. /\ req' \in [Requests -> RequestType(issued)] /\ QueueIsServed(req', leader')
        /\ req'["bye"].at = "idle" /\ \A s \in Awaited : s # "bye" => req'[s] = req[s]
    BY <1>1, <2>1, <2>2, GoodbyeIs
  <2>4. AwaitsItsRequest(req', boot', signin', signout')
    BY <1>1, <2>3, BeforeTask DEF AwaitsItsRequest, Awaited
  <2>5. token' \in TokensUpTo(issued) /\ OvertakenIsOver(boot', current', stale')
        /\ StoreTypes(isAuthenticated', isInitialized', persisted', current', boot', signin',
                      signout', stale')
    BY <1>1, <2>2, SignOutOvertakes, StoreIsTyped DEF StoreTypes
  <2>6. QED BY <1>1, <2>3, <2>4, <2>5, AfterTask
<1>3. CASE ~ IsCurrent("logout")
  <2>1. Consume("bye") /\ UNCHANGED <<token, persisted, isAuthenticated, current, stale>>
    BY <1>3 DEF ContinueLogout
  <2>2. /\ req' \in [Requests -> RequestType(issued)] /\ QueueIsServed(req', leader')
        /\ req'["bye"].at = "idle"
        /\ \A s \in Awaited \cup {"logout"} : s # "bye" => req'[s] = req[s]
    BY <1>1, <2>1, ConsumeIs, NamesDiffer
  <2>3. AwaitsItsRequest(req', boot', signin', signout')
    BY <1>1, <2>2, BeforeTask DEF AwaitsItsRequest, Awaited
  <2>4. OvertakenIsOver(boot', current', stale')
    BY <1>1, <2>1, BeforeTask
  <2>5. StoreTypes(isAuthenticated', isInitialized', persisted', current', boot', signin',
                   signout', stale')
    BY <1>1, <2>1, StoreIsTyped DEF StoreTypes
  <2>6. QED BY <1>1, <2>1, <2>2, <2>3, <2>4, <2>5, BeforeTask, AfterTask
<1>4. QED BY <1>2, <1>3

-----------------------------------------------------------------------------
(* What the tab promises *)

LEMMA ClientSteps ==
  ASSUME ClientInv, [ClientNext]_clientVars
  PROVE  ClientInv'
<1>1. ASSUME UNCHANGED clientVars PROVE ClientInv'
  BY <1>1 DEF clientVars, server, store, ClientInv
<1>2. ASSUME NEW r \in Requests, Answer(r) \/ Receive(r) \/ TimeOut(r) PROVE ClientInv'
  BY <1>2, AnswerKeeps, ReceiveKeeps, TimeOutKeeps
<1>3. CASE (\E t \in 1 .. MaxTokens : Expire(t)) \/ EndElsewhere
  BY <1>3, ServerKeeps
<1>4. CASE \E c \in Calls : Call(c)
  BY <1>4, CallKeeps
<1>5. CASE Start \/ BootTimeout \/ Login \/ Logout
  BY <1>5, StartKeeps, BootTimeoutKeeps, LoginKeeps, LogoutKeeps
<1>6. CASE Continue
  BY <1>6, ContinueBootKeeps, ContinueProfileKeeps, ContinueLoginKeeps, ContinueLogoutKeeps DEF Continue
<1>7. QED BY <1>1, <1>2, <1>3, <1>4, <1>5, <1>6 DEF ClientNext

THEOREM ClientInvariance == ClientSpec => []ClientInv
<1>1. ClientInv /\ [ClientNext]_clientVars => ClientInv'
  BY ClientSteps
<1>2. QED BY <1>1, ClientStarts, PTL DEF ClientSpec

\* The types of the tab, its requests and its store hold.
THEOREM ClientTyping == ClientSpec => []ClientTypeOK
<1>1. ClientInv => ClientTypeOK
  <2> SUFFICES ASSUME ClientInv PROVE ClientTypeOK
    OBVIOUS
  <2>1. /\ live \subseteq 1 .. issued /\ expired \subseteq 1 .. issued /\ issued \in 1 .. MaxTokens
        /\ blocked \in BOOLEAN
    BY DEF ClientInv, ServerTypes
  <2>2. jar \in (1 .. issued) \cup {Null} /\ token \in (1 .. issued) \cup {Null}
    BY DEF ClientInv, TokensUpTo
  <2>3. req \in [Requests -> [at : {"idle", "sent", "answered", "queued", "leading", "done"},
                              token : (1 .. issued) \cup {Null}, cookie : (1 .. issued) \cup {Null},
                              retried : BOOLEAN, answer : {"none", "ok", "401", "no"},
                              gen : (1 .. issued) \cup {Null}]]
    BY DEF ClientInv, RequestType, TokensUpTo
  <2>4. leader \in (Requests \ Skips) \cup {Null}
    BY DEF ClientInv, QueueIsServed
  <2>5. QED BY <2>1, <2>2, <2>3, <2>4, StoreIsTyped DEF ClientTypeOK, StoreTypes
<1>2. QED BY <1>1, ClientInvariance, PTL

(***************************************************************************)
(* Nobody waits for a refresh that is not under way: as long as a request  *)
(* is held back there is one whose 401 leads a refresh that is out         *)
(* (isRefreshing and failedQueue of the interceptor), for any number of    *)
(* requests, overlapping operations, timeouts and sign-outs.               *)
(***************************************************************************)
RefreshIsUnderWay ==
  \A r \in Requests : req[r].at \in {"queued", "leading"} =>
    /\ leader # Null /\ req[leader].at = "leading"
    /\ req["silent"].at \in {"sent", "answered"}

THEOREM NobodyWaitsInVain == ClientSpec => []RefreshIsUnderWay
<1>1. ClientInv => RefreshIsUnderWay
  <2> SUFFICES ASSUME ClientInv, NEW r \in Requests, req[r].at \in {"queued", "leading"}
               PROVE  /\ leader # Null /\ req[leader].at = "leading"
                      /\ req["silent"].at \in {"sent", "answered"}
    BY DEF RefreshIsUnderWay
  <2>1. QueueIsServed(req, leader)
    BY DEF ClientInv
  <2>2. leader # Null
    BY <2>1, NamesDiffer DEF QueueIsServed
  <2>3. leader \in Requests /\ req["silent"].at # "idle"
    BY <2>1, <2>2 DEF QueueIsServed
  <2>4. QED BY <2>1, <2>2, <2>3 DEF QueueIsServed
<1>2. QED BY <1>1, ClientInvariance, PTL

(***************************************************************************)
(* No operation of the store waits for an answer that cannot come any      *)
(* more: what it awaits is out, or is there, or is held back by a refresh  *)
(* that is out (the awaits of initialize, login and logout), whatever      *)
(* other operation, timeout or sign-out came in between.                   *)
(***************************************************************************)
OnItsWay(r) ==
  \/ req[r].at \in {"sent", "answered", "done"}
  \/ req[r].at \in {"queued", "leading"} /\ req["silent"].at \in {"sent", "answered"}

AnswersAreComing ==
  /\ boot = "refresh" => OnItsWay("boot")
  /\ boot = "profile" => OnItsWay("profile")
  /\ signin = "wait" => OnItsWay("login")
  /\ signout # "idle" => OnItsWay("bye")

THEOREM NoOperationIsStuck == ClientSpec => []AnswersAreComing
<1>1. ASSUME ClientInv, RefreshIsUnderWay PROVE AnswersAreComing
  <2>1. ASSUME NEW r \in Requests, req[r].at # "idle" PROVE OnItsWay(r)
    <3>1. req[r] \in RequestType(issued)
      BY <1>1 DEF ClientInv
    <3>2. req[r].at \in {"sent", "answered", "queued", "leading", "done"}
      BY <2>1, <3>1 DEF RequestType
    <3>3. QED BY <1>1, <3>2 DEF OnItsWay, RefreshIsUnderWay
  <2>2. AwaitsItsRequest(req, boot, signin, signout)
    BY <1>1 DEF ClientInv
  <2>3. {"boot", "profile", "login", "bye"} \subseteq Requests
    BY DEF Requests, Awaited
  <2>4. QED BY <2>1, <2>2, <2>3 DEF AwaitsItsRequest, AnswersAreComing
<1>2. QED BY <1>1, ClientInvariance, NobodyWaitsInVain, PTL

\* Only an operation that is the latest one signs a user in.
LEMMA WhoSignsIn ==
  ASSUME ClientInv, ClientNext, ~ isAuthenticated, isAuthenticated'
  PROVE  \/ current = "boot" /\ signin' = signin
         \/ current = "login" /\ boot' = boot
<1>1. isAuthenticated \in BOOLEAN
  BY BeforeTask DEF StoreTypes
<1>2. CASE \/ \E r \in Requests : Answer(r) \/ TimeOut(r)
           \/ (\E t \in 1 .. MaxTokens : Expire(t)) \/ EndElsewhere
           \/ \E c \in Calls : Call(c)
  BY <1>2 DEF Answer, TimeOut, SilentFails, SignedOut, Expire, EndElsewhere, Call, store
<1>3. CASE \E r \in Requests : Receive(r)
  BY <1>3 DEF Receive, ReceiveHeld, ReceiveOther, SilentSucceeds, SilentFails, SignedOut, store
<1>4. CASE Start \/ Login \/ Logout \/ ContinueLogout
  BY <1>4 DEF Start, Login, Logout, ContinueLogout, SignedOut
<1>5. CASE ContinueBoot
  BY <1>5 DEF ContinueBoot, BootFails, SignedOut
<1>6. CASE ContinueProfile
  BY <1>6 DEF ContinueProfile, BootHydrates, IsCurrent
<1>7. CASE BootTimeout
  BY <1>7 DEF BootTimeout, BootFails, BootHydrates, SignedOut, IsCurrent
<1>8. CASE ContinueLogin
  BY <1>8 DEF ContinueLogin, IsCurrent
<1>9. QED BY <1>2, <1>3, <1>4, <1>5, <1>6, <1>7, <1>8 DEF ClientNext, Continue

(***************************************************************************)
(* Whatever is out when a user is signed out, by a click, a failed refresh *)
(* or a failed start: no operation that began before signs the user in     *)
(* again, though none of them is cancelled.  A sign-out takes the rank of  *)
(* the latest operation from all that are in progress, and only the latest *)
(* one signs in.                                                           *)
(***************************************************************************)
THEOREM SignedOutIsOut == ClientSpec => SignedOutStays
<1>1. ASSUME ClientInv, [ClientNext]_clientVars, ~ isAuthenticated, isAuthenticated'
      PROVE  /\ boot = "profile" /\ boot' = "over" => "boot" \notin stale
             /\ signin = "wait" /\ signin' = "idle" => "login" \notin stale
  <2>1. OvertakenIsOver(boot, current, stale)
    BY <1>1, BeforeTask
  <2>2. CASE UNCHANGED clientVars
    BY <1>1, <2>2 DEF clientVars, store
  <2>3. CASE ClientNext
    <3>1. \/ current = "boot" /\ signin' = signin
          \/ current = "login" /\ boot' = boot
      BY <1>1, <2>3, WhoSignsIn
    <3>2. QED BY <2>1, <3>1 DEF OvertakenIsOver
  <2>4. QED BY <1>1, <2>2, <2>3
<1>2. ClientInv /\ [ClientNext]_clientVars =>
        (~ isAuthenticated /\ isAuthenticated' =>
          /\ boot = "profile" /\ boot' = "over" => "boot" \notin stale
          /\ signin = "wait" /\ signin' = "idle" => "login" \notin stale)
  BY <1>1
<1>3. QED BY <1>2, ClientInvariance, PTL DEF ClientSpec, SignedOutStays

-----------------------------------------------------------------------------
(* Waiting comes to an end *)

(***************************************************************************)
(* Fairness is stated of the state here, so that what follows from it      *)
(* needs no ENABLED.  A request is out, or it is held back by a silent     *)
(* refresh, or it is over.                                                 *)
(***************************************************************************)
IsOut(r)  == req[r].at \in {"sent", "answered"}
IsHeld(r) == req[r].at \in {"queued", "leading"}
IsOver(r) == req[r].at \in {"idle", "done"}

\* The tokens that were issued, without one that is still on its way to the
\* silent refresh.
TokenOnItsWay == req["silent"].at = "answered" /\ req["silent"].answer = "ok"
Delivered == issued - (IF TokenOnItsWay THEN 1 ELSE 0)

\* A task that neither brings an answer nor ends the silent refresh leaves
\* every request that is not over as it is.
LEMMA StoreLeavesOpen ==
  ASSUME ClientInv,
         (\E c \in Calls : Call(c)) \/ Start \/ BootTimeout \/ Login \/ Logout \/ Continue
  PROVE  /\ issued' = issued /\ req'["silent"] = req["silent"]
         /\ \A r \in Requests : ~ IsOver(r) => req'[r] = req[r]
<1>1. /\ req \in [Requests -> RequestType(issued)] /\ QueueIsServed(req, leader)
      /\ AwaitsItsRequest(req, boot, signin, signout)
  BY BeforeTask
<1>2. "silent" \notin Awaited \cup {"logout"} /\ Awaited \cup {"logout"} \subseteq Requests
      /\ "silent" \in Requests
  BY NamesDiffer
<1>3. issued' = issued
  BY DEF Call, Start, BootTimeout, Login, Logout, Continue, ContinueBoot, ContinueProfile,
         ContinueLogin, ContinueLogout, server
<1>4. ASSUME NEW R, R \subseteq Requests \ {"silent"}, \A s \in R : IsOver(s),
             \A s \in Requests \ R : req'[s] = req[s]
      PROVE  req'["silent"] = req["silent"] /\ \A r \in Requests : ~ IsOver(r) => req'[r] = req[r]
  BY <1>2, <1>4
<1>5. CASE \E c \in Calls : Call(c)
  <2>1. PICK c \in Calls : Call(c)
    BY <1>5
  <2>2. /\ c \in Requests \ {"silent"} /\ IsOver(c)
        /\ \A s \in Requests \ {c} : req'[s] = req[s]
    BY <1>1, <2>1, NamesDiffer DEF Call, IsOver
  <2>3. QED BY <1>3, <1>4, <2>2
<1>6. CASE Start
  <2>1. IsOver("boot") /\ "boot" \in Requests \ {"silent"}
        /\ \A s \in Requests \ {"boot"} : req'[s] = req[s]
    BY <1>1, <1>2, <1>6 DEF Start, AwaitsItsRequest, IsOver, Awaited
  <2>2. QED BY <1>3, <1>4, <2>1
<1>7. CASE BootTimeout
  BY <1>3, <1>7 DEF BootTimeout
<1>8. CASE Login
  <2>1. IsOver("login") /\ "login" \in Requests \ {"silent"}
        /\ \A s \in Requests \ {"login"} : req'[s] = req[s]
    BY <1>1, <1>2, <1>8 DEF Login, AwaitsItsRequest, IsOver, Awaited
  <2>2. QED BY <1>3, <1>4, <2>1
<1>9. CASE Logout \/ ContinueLogout
  <2>1. IsOver("bye") /\ IsOver("logout")
    BY <1>1, <1>9 DEF Logout, ContinueLogout, AwaitsItsRequest, IsOver
  <2>2. {"bye", "logout"} \subseteq Requests \ {"silent"}
    BY <1>2 DEF Awaited
  <2>3. ASSUME NEW s \in Requests \ {"bye", "logout"} PROVE req'[s] = req[s]
    BY <1>1, <1>9, <2>3 DEF Logout, ContinueLogout, SayGoodbye, Consume
  <2>4. QED BY <1>3, <1>4, <2>1, <2>2, <2>3
<1>10. CASE ContinueBoot
  <2>1. IsOver("boot")
    BY <1>10 DEF ContinueBoot, IsOver
  <2>2. {"boot", "profile"} \subseteq Requests \ {"silent"}
    BY <1>2 DEF Awaited
  <2>3. CASE boot = "refresh"
    <3>1. IsOver("profile")
      BY <1>1, <2>3 DEF AwaitsItsRequest, IsOver
    <3>2. ASSUME NEW s \in Requests \ {"boot", "profile"} PROVE req'[s] = req[s]
      BY <1>1, <1>10, <3>2 DEF ContinueBoot, Consume
    <3>3. QED BY <1>3, <1>4, <2>1, <2>2, <3>1, <3>2
  <2>4. CASE boot # "refresh"
    <3>1. ASSUME NEW s \in Requests \ {"boot"} PROVE req'[s] = req[s]
      BY <1>1, <1>10, <2>4, <3>1 DEF ContinueBoot, Consume
    <3>2. QED BY <1>3, <1>4, <2>1, <2>2, <3>1
  <2>5. QED BY <2>3, <2>4
<1>11. CASE ContinueProfile
  <2>1. IsOver("profile") /\ "profile" \in Requests \ {"silent"}
        /\ \A s \in Requests \ {"profile"} : req'[s] = req[s]
    BY <1>1, <1>2, <1>11 DEF ContinueProfile, Consume, IsOver, Awaited
  <2>2. QED BY <1>3, <1>4, <2>1
<1>12. CASE ContinueLogin
  <2>1. IsOver("login") /\ "login" \in Requests \ {"silent"}
        /\ \A s \in Requests \ {"login"} : req'[s] = req[s]
    BY <1>1, <1>2, <1>12 DEF ContinueLogin, Consume, IsOver, Awaited
  <2>2. QED BY <1>3, <1>4, <2>1
<1>13. QED BY <1>5, <1>6, <1>7, <1>8, <1>9, <1>10, <1>11, <1>12 DEF Continue

\* An answer issues at most one token, and only to the request it is for.
LEMMA AnswerDelivers ==
  ASSUME ClientInv, NEW r \in Requests, Answer(r)
  PROVE  /\ Delivered' >= Delivered
         /\ \A s \in Requests : s # r => req'[s] = req[s]
         /\ ~ IsHeld(r) /\ req'[r].at = "answered" /\ req'[r].retried = req[r].retried
<1>1. /\ req \in [Requests -> RequestType(issued)] /\ issued \in Nat /\ req[r].at = "sent"
      /\ "silent" \in Requests
  BY BeforeTask, ClientAssumption, NamesDiffer DEF ClientInv, ServerTypes, Answer
<1>2. PICK a, n : /\ Answered(r, a, n)
                  /\ \/ issued' = issued
                     \/ issued' = issued + 1
                  /\ a = "ok" /\ r = "silent" => issued' = issued + 1
  <2>1. CASE AnswerRefresh(r)
    <3>1. \/ issued' = issued + 1 /\ Answered(r, "ok", issued + 1)
          \/ issued' = issued /\ Answered(r, "no", Null)
          \/ issued' = issued /\ Answered(r, "401", Null)
      BY <2>1 DEF AnswerRefresh
    <3>2. QED BY <3>1
  <2>2. CASE AnswerCall(r)
    <3>1. r # "silent" /\ issued' = issued
      BY <2>2, NamesDiffer DEF AnswerCall, server
    <3>2. Answered(r, "ok", Null) \/ Answered(r, "401", Null)
      BY <2>2 DEF AnswerCall
    <3>3. QED BY <3>1, <3>2
  <2>3. CASE r = "login" /\ AnswerLogin
    <3>1. r # "silent"
      BY <2>3
    <3>2. \/ issued' = issued /\ Answered("login", "401", Null)
          \/ issued' = issued + 1 /\ Answered("login", "ok", issued + 1)
      BY <2>3 DEF AnswerLogin, server
    <3>3. QED BY <2>3, <3>1, <3>2
  <2>4. CASE r = "logout" /\ AnswerLogout
    <3>1. r # "silent"
      BY <2>4
    <3>2. issued' = issued /\ (Answered("logout", "ok", Null) \/ Answered("logout", "401", Null))
      BY <2>4 DEF AnswerLogout
    <3>3. QED BY <2>4, <3>1, <3>2
  <2>5. QED BY <2>1, <2>2, <2>3, <2>4 DEF Answer
<1> DEFINE x == [req[r] EXCEPT !.at = "answered", !.token = Null, !.answer = a, !.gen = n]
<1>3. /\ req' = [req EXCEPT ![r] = x]
      /\ x.at = "answered" /\ x.answer = a /\ x.retried = req[r].retried
  BY <1>1, <1>2 DEF Answered, RequestType
<1> HIDE DEF x
<1>4. req'[r] = x /\ \A s \in Requests : s # r => req'[s] = req[s]
  BY <1>1, <1>3
<1>5. CASE r = "silent"
  <2>1. ~ TokenOnItsWay /\ (TokenOnItsWay' => a = "ok")
    BY <1>1, <1>3, <1>4, <1>5 DEF TokenOnItsWay
  <2>2. QED BY <1>1, <1>2, <1>3, <1>4, <1>5, <2>1 DEF Delivered, IsHeld
<1>6. CASE r # "silent"
  <2>1. TokenOnItsWay' <=> TokenOnItsWay
    BY <1>1, <1>4, <1>6 DEF TokenOnItsWay
  <2>2. QED BY <1>1, <1>2, <1>3, <1>4, <2>1 DEF Delivered, IsHeld
<1>7. QED BY <1>5, <1>6

\* The end of the silent refresh: with a token, everything that waited goes out
\* again, and the token is no longer on its way; without, it is over.
LEMMA RefreshLetsGo ==
  ASSUME ClientInv, issued' = issued, req["silent"].at \in {"sent", "answered"},
         \/ req["silent"].at = "answered" /\ SilentSucceeds
         \/ \E a : SilentFails(a)
  PROVE  /\ Delivered' >= Delivered
         /\ \A r \in Requests : IsHeld(r) => IsOver(r)' \/ Delivered' > Delivered
<1>1. /\ req \in [Requests -> RequestType(issued)] /\ issued \in Nat /\ "silent" \in Requests
      /\ "silent" \notin Waiting /\ "silent" \notin Rejected
  BY BeforeTask, ClientAssumption, NamesDiffer DEF ClientInv, ServerTypes, Waiting, Rejected
<1>2. CASE req["silent"].at = "answered" /\ SilentSucceeds
  <2>1. TokenOnItsWay /\ req'["silent"] = NoRequest
    BY <1>1, <1>2 DEF SilentSucceeds, TokenOnItsWay
  <2>2. ~ TokenOnItsWay'
    BY <2>1, NoRequestIs DEF TokenOnItsWay
  <2>3. QED BY <1>1, <2>1, <2>2 DEF Delivered
<1>3. CASE \E a : SilentFails(a)
  <2>1. req' = [s \in Requests |-> IF s \in Rejected THEN Over(s, "no")
                                   ELSE IF s = "silent" THEN NoRequest ELSE req[s]]
    BY <1>3 DEF SilentFails
  <2>2. ~ TokenOnItsWay'
    BY <1>1, <2>1, NoRequestIs DEF TokenOnItsWay
  <2>3. ASSUME NEW r \in Requests, IsHeld(r) PROVE IsOver(r)'
    <3>1. r \in Rejected
      BY <2>3 DEF Rejected, IsHeld
    <3>2. req'[r] = Over(r, "no")
      BY <2>1, <3>1
    <3>3. Over(r, "no").at \in {"idle", "done"}
      BY <1>1, OverIs
    <3>4. QED BY <3>2, <3>3 DEF IsOver
  <2>4. QED BY <1>1, <2>2, <2>3 DEF Delivered
<1>4. QED BY <1>2, <1>3

\* An answer that is not the end of the refresh moves none of those that wait.
LEMMA OtherReceived ==
  ASSUME ClientInv, NEW r \in Requests, req[r].at \in {"sent", "answered"}, issued' = issued,
         \/ ReceiveHeld(r)
         \/ r # "silent" /\ \E a : req' = [req EXCEPT ![r] = Over(r, a)]
  PROVE  /\ Delivered' >= Delivered
         /\ \A s \in Requests : IsHeld(s) => req'[s] = req[s]
<1>1. /\ req \in [Requests -> RequestType(issued)] /\ issued \in Nat /\ "silent" \in Requests
      /\ QueueIsServed(req, leader)
  BY BeforeTask, ClientAssumption, NamesDiffer DEF ClientInv, ServerTypes
<1>2. r # "silent" /\ ~ IsHeld(r)
  BY DEF ReceiveHeld, HoldsBack, Skips, IsHeld
<1>3. ~ IsHeld("silent")
  BY <1>1 DEF QueueIsServed, IsHeld
<1>4. CASE ReceiveHeld(r) /\ leader = Null
  <2>1. ~ TokenOnItsWay
    BY <1>1, <1>4 DEF QueueIsServed, TokenOnItsWay
  <2>2. req' = [req EXCEPT ![r] = Held(r, "leading", TRUE),
                           !["silent"] = Sent("silent", Null, CookieAfter(r))]
    BY <1>4 DEF ReceiveHeld
  <2>3. \A s \in Requests \ {r, "silent"} : req'[s] = req[s]
    BY <1>1, <2>2
  <2>4. Sent("silent", Null, CookieAfter(r)).at = "sent"
    BY <1>1, CookieAfterIs, NullIsToken, SentIs
  <2>5. ~ TokenOnItsWay'
    BY <1>1, <1>2, <2>2, <2>4 DEF TokenOnItsWay
  <2>6. QED BY <1>1, <1>2, <1>3, <2>1, <2>3, <2>5 DEF Delivered
<1>5. CASE ~ (ReceiveHeld(r) /\ leader = Null)
  <2>1. \A s \in Requests \ {r} : req'[s] = req[s]
    BY <1>1, <1>5 DEF ReceiveHeld
  <2>2. TokenOnItsWay' <=> TokenOnItsWay
    BY <1>1, <1>2, <2>1 DEF TokenOnItsWay
  <2>3. QED BY <1>1, <1>2, <2>1, <2>2 DEF Delivered
<1>6. QED BY <1>4, <1>5

\* No token comes back once it is delivered, and whatever waits for the refresh
\* goes on waiting, is over, or goes out with a token that was delivered.
LEMMA WaitingIsPaid ==
  ASSUME ClientInv, [ClientNext]_clientVars
  PROVE  /\ Delivered' >= Delivered
         /\ \A r \in Requests : IsHeld(r) => IsHeld(r)' \/ IsOver(r)' \/ Delivered' > Delivered
<1>1. issued \in Nat
  BY ClientAssumption DEF ClientInv, ServerTypes
<1>2. ASSUME issued' = issued, req'["silent"] = req["silent"],
             \A r \in Requests : IsHeld(r) => req'[r] = req[r]
      PROVE  /\ Delivered' >= Delivered
             /\ \A r \in Requests : IsHeld(r) => IsHeld(r)' \/ IsOver(r)' \/ Delivered' > Delivered
  BY <1>1, <1>2 DEF Delivered, TokenOnItsWay, IsHeld
<1>3. CASE UNCHANGED clientVars \/ (\E t \in 1 .. MaxTokens : Expire(t)) \/ EndElsewhere
  BY <1>2, <1>3 DEF clientVars, server, Expire, EndElsewhere
<1>4. CASE \E r \in Requests : Answer(r)
  BY <1>4, AnswerDelivers DEF IsHeld
<1>5. CASE \E r \in Requests : Receive(r) \/ TimeOut(r)
  <2>1. PICK r \in Requests : Receive(r) \/ TimeOut(r)
    BY <1>5
  <2>2. req[r].at \in {"sent", "answered"} /\ issued' = issued
    BY <2>1 DEF Receive, TimeOut, server
  <2>3. CASE \/ r = "silent" /\ req["silent"].at = "answered" /\ SilentSucceeds
             \/ r = "silent" /\ \E a : SilentFails(a)
    BY <2>2, <2>3, RefreshLetsGo
  <2>4. CASE \/ ReceiveHeld(r)
             \/ r # "silent" /\ \E a : req' = [req EXCEPT ![r] = Over(r, a)]
    BY <2>2, <2>4, OtherReceived DEF IsHeld
  <2>5. QED BY <2>1, <2>3, <2>4 DEF Receive, TimeOut, ReceiveOther
<1>6. CASE (\E c \in Calls : Call(c)) \/ Start \/ BootTimeout \/ Login \/ Logout \/ Continue
  BY <1>2, <1>6, StoreLeavesOpen DEF IsHeld, IsOver
<1>7. QED BY <1>3, <1>4, <1>5, <1>6 DEF ClientNext

\* Whoever is held back by a silent refresh is let go, if the refresh, as
\* Fairness says of every request, does not stay out for ever: the promises of
\* failedQueue are all resolved or rejected.
THEOREM HeldBackAreLetGo ==
  ASSUME NEW r \in Requests
  PROVE  ClientSpec /\ []<>(req["silent"].at \notin {"sent", "answered"})
           => (IsHeld(r) ~> ~ IsHeld(r))
<1>1. RefreshIsUnderWay => (IsHeld(r) => ~ (req["silent"].at \notin {"sent", "answered"}))
  BY DEF RefreshIsUnderWay, IsHeld
<1>2. QED BY <1>1, NobodyWaitsInVain, PTL

(***************************************************************************)
(* A request that is out or held back comes to its end, or a further token *)
(* of the silent refresh has been delivered (or lost) meanwhile: a request *)
(* goes out again for a new token only.  The premises are what Fairness    *)
(* says of this request and of the silent refresh.  No more than MaxTokens *)
(* are ever delivered, so that this is the step of the induction that      *)
(* CallsSettle rests on.                                                   *)
(***************************************************************************)
THEOREM RequestsGoOn ==
  ASSUME NEW r \in Requests, NEW n \in Nat
  PROVE  ClientSpec /\ []<>(req[r].at \notin {"sent", "answered"})
                    /\ []<>(req["silent"].at \notin {"sent", "answered"})
           => ((~ IsOver(r) /\ Delivered = n) ~> (IsOver(r) \/ Delivered > n))
<1> DEFINE Out  == IsOut(r) /\ Delivered = n
           Back == IsHeld(r) /\ Delivered = n
           Done == IsOver(r) \/ Delivered > n
<1>1. ClientInv => Delivered \in Nat /\ (IsOut(r) \/ IsHeld(r) \/ IsOver(r))
  <2> SUFFICES ASSUME ClientInv PROVE Delivered \in Nat /\ (IsOut(r) \/ IsHeld(r) \/ IsOver(r))
    OBVIOUS
  <2>1. issued \in Nat /\ issued >= 1 /\ req[r] \in RequestType(issued)
    BY ClientAssumption DEF ClientInv, ServerTypes
  <2>2. Delivered \in Nat
    BY <2>1 DEF Delivered
  <2>3. QED BY <2>1, <2>2 DEF IsOut, IsHeld, IsOver, RequestType
<1>2. ClientInv' => (Delivered \in Nat /\ (IsOut(r) \/ IsHeld(r) \/ IsOver(r)))'
  BY <1>1, PTL
<1>3. ClientInv /\ ClientInv' /\ Out /\ [ClientNext]_clientVars => Out' \/ Back' \/ Done'
  <2> SUFFICES ASSUME ClientInv, ClientInv', Out, [ClientNext]_clientVars
               PROVE  Out' \/ Back' \/ Done'
    OBVIOUS
  <2>1. Delivered' >= Delivered /\ Delivered' \in Nat /\ Delivered = n
    BY <1>2, WaitingIsPaid
  <2>2. (IsOut(r) \/ IsHeld(r) \/ IsOver(r))'
    BY <1>2
  <2>3. QED BY <2>1, <2>2
<1>4. ClientInv /\ ClientInv' /\ Back /\ [ClientNext]_clientVars => Back' \/ Done'
  <2> SUFFICES ASSUME ClientInv, ClientInv', Back, [ClientNext]_clientVars
               PROVE  Back' \/ Done'
    OBVIOUS
  <2>1. Delivered' >= Delivered /\ Delivered' \in Nat /\ Delivered = n
    BY <1>2, WaitingIsPaid
  <2>2. IsHeld(r)' \/ IsOver(r)' \/ Delivered' > Delivered
    BY WaitingIsPaid
  <2>3. QED BY <2>1, <2>2
<1>5. Out => ~ (req[r].at \notin {"sent", "answered"})
  BY DEF IsOut
<1>6. RefreshIsUnderWay /\ Back => ~ (req["silent"].at \notin {"sent", "answered"})
  BY DEF RefreshIsUnderWay, IsHeld
<1>7. ClientInv /\ ~ IsOver(r) /\ Delivered = n => Out \/ Back
  BY <1>1
<1> HIDE DEF Out, Back, Done
<1>8. ClientSpec /\ []<>(req[r].at \notin {"sent", "answered"})
                 /\ []<>(req["silent"].at \notin {"sent", "answered"})
        => ((~ IsOver(r) /\ Delivered = n) ~> Done)
  BY <1>3, <1>4, <1>5, <1>6, <1>7, ClientInvariance, NobodyWaitsInVain, PTL DEF ClientSpec
<1>9. QED BY <1>8 DEF Done

\* The silent refresh delivers no more tokens than are issued.
THEOREM DeliveriesAreBounded == ClientSpec => [](Delivered \in 0 .. MaxTokens)
<1>1. ASSUME ClientInv PROVE Delivered \in 0 .. MaxTokens
  BY <1>1, ClientAssumption DEF ClientInv, ServerTypes, Delivered
<1>2. ClientInv => Delivered \in 0 .. MaxTokens
  BY <1>1
<1>3. QED BY <1>2, ClientInvariance, PTL

\* A request that leads a refresh is marked as retried (_retry).
LeadersAreMarked == \A r \in Requests : req[r].at = "leading" => req[r].retried

\* A request that is marked is answered for good the next time.
LEMMA MarkedSteps ==
  ASSUME ClientInv, LeadersAreMarked, [ClientNext]_clientVars, NEW r \in Requests, req[r].retried
  PROVE  /\ IsOut(r) => IsOver(r)' \/ (IsOut(r)' /\ (req[r].retried)')
         /\ req[r].at = "leading" =>
              IsOver(r)' \/ ((IsOut(r) \/ req[r].at = "leading")' /\ (req[r].retried)')
<1> DEFINE Goal == /\ IsOut(r) => IsOver(r)' \/ (IsOut(r)' /\ (req[r].retried)')
                   /\ req[r].at = "leading" =>
                        IsOver(r)' \/ ((IsOut(r) \/ req[r].at = "leading")' /\ (req[r].retried)')
<1>1. /\ req \in [Requests -> RequestType(issued)] /\ QueueIsServed(req, leader)
      /\ "silent" \in Requests
  BY BeforeTask, NamesDiffer
<1>2. CASE req'[r] = req[r]
  BY <1>2 DEF IsOut
<1>3. CASE \E s \in Requests : Answer(s)
  <2>1. PICK s \in Requests : Answer(s)
    BY <1>3
  <2>2. CASE s = r
    BY <2>1, <2>2, AnswerDelivers DEF IsOut, IsHeld
  <2>3. CASE s # r
    BY <1>2, <2>1, <2>3, AnswerDelivers
  <2>4. QED BY <2>2, <2>3
<1>4. ASSUME NEW s \in Requests, s # "silent", req[s].at \in {"sent", "answered"},
             NEW a, req' = [req EXCEPT ![s] = Over(s, a)]
      PROVE  Goal
  <2>1. CASE s = r
    <3>1. req'[r] = Over(r, a)
      BY <1>1, <1>4, <2>1
    <3>2. IsOver(r)'
      BY <3>1, NoRequestIs DEF Over, IsOver, NoRequest
    <3>3. QED BY <3>2
  <2>2. CASE s # r
    BY <1>1, <1>2, <1>4, <2>2
  <2>3. QED BY <2>1, <2>2
<1>5. ASSUME NEW s \in Requests, req[s].at = "answered", ReceiveHeld(s)
      PROVE  Goal
  <2>1. s # r
    BY <1>5 DEF ReceiveHeld, HoldsBack
  <2>2. CASE leader # Null \/ r # "silent"
    <3>1. req'[r] = req[r]
      BY <1>1, <1>5, <2>1, <2>2 DEF ReceiveHeld
    <3>2. QED BY <1>2, <3>1
  <2>3. CASE leader = Null /\ r = "silent"
    BY <1>1, <2>3 DEF QueueIsServed, IsOut
  <2>4. QED BY <2>2, <2>3
<1>6. CASE SilentSucceeds
  <2>1. req' = [s \in Requests |-> IF s \in Waiting
                                   THEN Sent(s, req["silent"].gen, req["silent"].gen)
                                   ELSE IF s = "silent" THEN NoRequest ELSE req[s]]
    BY <1>6 DEF SilentSucceeds
  <2>2. CASE r \in Waiting
    <3>1. req'[r] = Sent(r, req["silent"].gen, req["silent"].gen)
      BY <2>1, <2>2
    <3>2. (req[r].at)' = "sent" /\ (req[r].retried)' = req[r].retried
      BY <3>1 DEF Sent, NoRequest
    <3>3. QED BY <2>2, <3>2 DEF Waiting, IsOut
  <2>3. CASE r \notin Waiting /\ r = "silent"
    BY <2>1, <2>3, NoRequestIs, <1>1 DEF Waiting, IsOut, IsOver
  <2>4. CASE r \notin Waiting /\ r # "silent"
    BY <1>2, <2>1, <2>4
  <2>5. QED BY <2>2, <2>3, <2>4
<1>7. CASE \E a : SilentFails(a)
  <2>1. req' = [s \in Requests |-> IF s \in Rejected THEN Over(s, "no")
                                   ELSE IF s = "silent" THEN NoRequest ELSE req[s]]
    BY <1>7 DEF SilentFails
  <2>2. CASE r \in Rejected \/ r = "silent"
    <3>1. req'[r] = Over(r, "no") \/ req'[r] = NoRequest
      BY <2>1, <2>2
    <3>2. Over(r, "no").at \in {"idle", "done"} /\ NoRequest.at = "idle"
      BY <1>1, OverIs, NoRequestIs
    <3>3. IsOver(r)'
      BY <3>1, <3>2 DEF IsOver
    <3>4. QED BY <3>3
  <2>3. CASE ~ (r \in Rejected \/ r = "silent")
    BY <1>2, <2>1, <2>3
  <2>4. QED BY <2>2, <2>3
<1>8. CASE \E s \in Requests : Receive(s) \/ TimeOut(s)
  <2>1. PICK s \in Requests : Receive(s) \/ TimeOut(s)
    BY <1>8
  <2>2. CASE Receive(s)
    BY <1>4, <1>5, <1>6, <1>7, <2>2 DEF Receive, ReceiveOther
  <2>3. CASE TimeOut(s)
    BY <1>4, <1>7, <2>3 DEF TimeOut
  <2>4. QED BY <2>1, <2>2, <2>3
<1>9. CASE UNCHANGED clientVars \/ (\E t \in 1 .. MaxTokens : Expire(t)) \/ EndElsewhere
  BY <1>2, <1>9 DEF clientVars, Expire, EndElsewhere
<1>10. CASE (\E c \in Calls : Call(c)) \/ Start \/ BootTimeout \/ Login \/ Logout \/ Continue
  BY <1>2, <1>10, StoreLeavesOpen DEF IsOut, IsOver
<1>11. QED BY <1>3, <1>8, <1>9, <1>10 DEF ClientNext

LEMMA LeadersStayMarked ==
  ASSUME ClientInv, ClientInv', LeadersAreMarked, [ClientNext]_clientVars
  PROVE  LeadersAreMarked'
<1> SUFFICES ASSUME NEW r \in Requests, req'[r].at = "leading" PROVE req'[r].retried
  BY DEF LeadersAreMarked
<1>1. QueueIsServed(req, leader) /\ QueueIsServed(req', leader') /\ Null \notin Requests
      /\ req \in [Requests -> RequestType(issued)]
  BY NamesDiffer DEF ClientInv
<1>2. r = leader'
  BY <1>1 DEF QueueIsServed
<1>3. CASE leader' = leader
  <2>1. req[r].at = "leading" /\ req[r].retried
    BY <1>1, <1>2, <1>3 DEF QueueIsServed, LeadersAreMarked
  <2>2. IsOver(r)' \/ (req[r].retried)'
    BY <2>1, MarkedSteps
  <2>3. QED BY <2>2 DEF IsOver
<1>4. CASE leader' # leader
  <2>1. \E s \in Requests : ReceiveHeld(s) /\ leader = Null
    <3>1. \E s \in Requests : Receive(s) \/ TimeOut(s)
      BY <1>4 DEF ClientNext, clientVars, Answer, Expire, EndElsewhere, Call, Start, BootTimeout,
                  Login, Logout, Continue, ContinueBoot, ContinueProfile, ContinueLogin, ContinueLogout
    <3>2. leader' # Null
      BY <1>1, <1>2
    <3>3. QED BY <1>4, <3>1, <3>2 DEF Receive, TimeOut, ReceiveHeld, ReceiveOther, SilentSucceeds, SilentFails
  <2>2. PICK s \in Requests : ReceiveHeld(s) /\ leader = Null
    BY <2>1
  <2>3. s = r /\ r # "silent"
    BY <1>2, <2>2 DEF ReceiveHeld, HoldsBack, Skips
  <2>4. req'[r] = Held(r, "leading", TRUE)
    BY <1>1, <2>2, <2>3 DEF ReceiveHeld
  <2>5. QED BY <2>4 DEF Held, NoRequest
<1>5. QED BY <1>3, <1>4

(***************************************************************************)
(* A request whose 401 starts the silent refresh comes to its end, whatever*)
(* is refreshed, revoked or signed out meanwhile: it is sent again once    *)
(* (_retry), and its next answer is the last.  No number of tokens bounds  *)
(* this.                                                                   *)
(***************************************************************************)
THEOREM LeadersComeToAnEnd ==
  ASSUME NEW r \in Requests
  PROVE  ClientSpec /\ []<>(req[r].at \notin {"sent", "answered"})
                    /\ []<>(req["silent"].at \notin {"sent", "answered"})
           => (req[r].at = "leading" ~> IsOver(r))
<1> DEFINE Leads == req[r].at = "leading" /\ req[r].retried
           Again == IsOut(r) /\ req[r].retried
<1>1. LeadersAreMarked => (req[r].at = "leading" => Leads)
  BY DEF LeadersAreMarked
<1>2. ClientInv /\ LeadersAreMarked /\ Leads /\ [ClientNext]_clientVars
        => Leads' \/ Again' \/ IsOver(r)'
  BY MarkedSteps
<1>3. ClientInv /\ LeadersAreMarked /\ Again /\ [ClientNext]_clientVars
        => Again' \/ IsOver(r)'
  BY MarkedSteps
<1>4. Again => ~ (req[r].at \notin {"sent", "answered"})
  BY DEF IsOut
<1>5. RefreshIsUnderWay /\ Leads => ~ (req["silent"].at \notin {"sent", "answered"})
  BY DEF RefreshIsUnderWay
<1>6. ClientInit => LeadersAreMarked
  BY DEF ClientInit, LeadersAreMarked, NoRequest
<1>7. ClientInv /\ ClientInv' /\ LeadersAreMarked /\ [ClientNext]_clientVars => LeadersAreMarked'
  BY LeadersStayMarked
<1> HIDE DEF Leads, Again
<1>8. QED BY <1>1, <1>2, <1>3, <1>4, <1>5, <1>6, <1>7, ClientInvariance, NobodyWaitsInVain, PTL
          DEF ClientSpec
=============================================================================
