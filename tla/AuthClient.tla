----------------------------- MODULE AuthClient -----------------------------
(***************************************************************************)
(* Authentication in one tab of the browser: the API client with its       *)
(* silent refresh (lib/api/client.ts, authSession.ts), and the auth store  *)
(* with its operations initialize, login and logout (store/authStore.ts).  *)
(*                                                                         *)
(* The tab runs one task at a time.  An action is the task an answer, a    *)
(* click or a timer starts; a store operation goes on (Continue) in the    *)
(* same turn of the event loop as the request it awaits, before any other  *)
(* task, which is what Turn asks for.                                      *)
(*                                                                         *)
(* The server is the environment.  The n-th refresh token and access token *)
(* it issues are both the number n; it rotates atomically here (see        *)
(* AuthSessions for its steps).                                            *)
(***************************************************************************)
EXTENDS Naturals, FiniteSets

CONSTANTS
  Calls,        \* requests of pages
  Null,         \* no token, no cookie
  MaxTokens     \* bound: tokens issued; the server fails after that

VARIABLES
  \* The server, and the cookie jar
  live,             \* refresh tokens of live sessions
  issued, expired,  \* how many tokens, and which access tokens are past 15 minutes
  blocked,          \* access is revoked
  jar,
  \* The API client
  token,            \* the access token in memory
  req,              \* requests, by who makes them
  leader,           \* the request whose 401 started the silent refresh; isRefreshing
  \* The store
  isAuthenticated, isInitialized,
  persisted,        \* the session marker in the browser's storage
  current,          \* the latest session operation, if it still counts
  boot, signin, signout,   \* how far the operations are
  stale             \* operations in progress when the user was last signed out

server     == <<live, issued, expired, blocked>>
store      == <<isAuthenticated, isInitialized, persisted, current, boot, signin, signout, stale>>
clientVars == <<server, jar, token, req, leader, store>>

\* The requests: those of pages, those the store awaits, the logout that nobody
\* awaits, and the silent refresh, which bypasses the interceptor.
Awaited  == {"boot", "profile", "login", "bye"}
Requests == Calls \cup Awaited \cup {"logout", "silent"}
Refreshes == {"boot", "bye", "silent"}
Skips    == {"bye", "logout", "silent"}    \* skipAuthRefresh

ASSUME ClientAssumption ==
  /\ MaxTokens \in Nat \ {0} /\ Null \notin Nat /\ Null \notin Requests
  /\ Calls \cap (Awaited \cup {"logout", "silent"}) = {}

NoRequest == [at |-> "idle", token |-> Null, cookie |-> Null, retried |-> FALSE,
              answer |-> "none", gen |-> Null]

\* A page is loaded, with or without a session from before, whose access token
\* went with the last page.
ClientInit ==
  /\ live \in SUBSET {1} /\ issued = 1 /\ expired = {1} /\ blocked = FALSE
  /\ jar \in {Null, 1}
  /\ token = Null /\ leader = Null
  /\ req = [r \in Requests |-> NoRequest]
  /\ isAuthenticated = FALSE /\ isInitialized = FALSE
  /\ persisted \in BOOLEAN
  /\ current = "none" /\ boot = "start" /\ signin = "idle" /\ signout = "idle"
  /\ stale = {}

\* No store operation has an answer to go on with.
Turn == \A r \in Awaited : req[r].at # "done"

\* Request r goes out with access token t and cookie k, if the server looks at
\* them.
Sent(r, t, k) == [NoRequest EXCEPT !.at = "sent", !.retried = req[r].retried,
  !.token = IF r \in Calls \cup {"profile", "logout"} THEN t ELSE Null,
  !.cookie = IF r \in Refreshes \cup {"logout"} THEN k ELSE Null]
NewRequest(r, t) == [Sent(r, t, jar) EXCEPT !.retried = FALSE]

-----------------------------------------------------------------------------
(* The server *)

Accepted(t) == t # Null /\ t \notin expired /\ ~ blocked

\* The answer to r, and for an issued token its number.
Answered(r, a, n) ==
  req' = [req EXCEPT ![r] =
    [@ EXCEPT !.at = "answered", !.token = Null, !.answer = a, !.gen = n]]

AnswerRefresh(r) ==
  /\ r \in Refreshes /\ UNCHANGED <<expired, blocked>>
  /\ IF req[r].cookie \in live /\ ~ blocked /\ issued < MaxTokens
     THEN /\ issued' = issued + 1
          /\ live' = (live \ {req[r].cookie}) \cup {issued + 1}
          /\ Answered(r, "ok", issued + 1)
     ELSE /\ Answered(r, IF blocked \/ req[r].cookie = Null THEN "no" ELSE "401", Null)
          /\ UNCHANGED <<live, issued>>

AnswerLogin ==
  \/ Answered("login", "401", Null) /\ UNCHANGED server
  \/ /\ ~ blocked /\ issued < MaxTokens
     /\ issued' = issued + 1 /\ live' = live \cup {issued + 1}
     /\ Answered("login", "ok", issued + 1)
     /\ UNCHANGED <<expired, blocked>>

AnswerLogout ==
  /\ IF Accepted(req["logout"].token)
     THEN live' = live \ {req["logout"].cookie} /\ Answered("logout", "ok", Null)
     ELSE live' = live /\ Answered("logout", "401", Null)
  /\ UNCHANGED <<issued, expired, blocked>>

AnswerCall(r) ==
  /\ r \in Calls \cup {"profile"} /\ UNCHANGED server
  /\ Answered(r, IF Accepted(req[r].token) THEN "ok" ELSE "401", Null)

Answer(r) ==
  /\ req[r].at = "sent"
  /\ \/ AnswerRefresh(r) \/ AnswerCall(r)
     \/ r = "login" /\ AnswerLogin
     \/ r = "logout" /\ AnswerLogout
  /\ UNCHANGED <<jar, token, leader, store>>

Expire(t) ==
  /\ t \in 1 .. issued \ expired /\ expired' = expired \cup {t}
  /\ UNCHANGED <<live, issued, blocked, jar, token, req, leader, store>>

\* Another device resets the password or logs out everywhere, or an
\* administrator revokes access.
EndElsewhere ==
  /\ live # {} \/ ~ blocked
  /\ live' = {} /\ blocked' \in {blocked, TRUE}
  /\ UNCHANGED <<issued, expired, jar, token, req, leader, store>>

-----------------------------------------------------------------------------
(* The API client *)

\* A request that is over: only the store goes on with what it got.
Over(r, a) == IF r \in Awaited
              THEN [NoRequest EXCEPT !.at = "done", !.answer = a,
                                     !.gen = IF a = "ok" THEN req[r].gen ELSE Null]
              ELSE NoRequest

\* The cookie after the answer to r: set by a login or a refresh, taken away by
\* a refresh or a logout that the server refused or finished.
CookieAfter(r) ==
  CASE req[r].gen # Null -> req[r].gen
    [] r \in Refreshes /\ req[r].cookie # Null -> Null
    [] r = "logout" /\ req[r].answer = "ok" -> Null
    [] OTHER -> jar

InProgress == (IF boot \in {"refresh", "profile"} THEN {"boot"} ELSE {})
              \cup (IF signin = "wait" THEN {"login"} ELSE {})

\* clearAuth, with what it does to the token and the storage; no operation is
\* the latest one after it.
SignedOut ==
  /\ token' = Null /\ persisted' = FALSE /\ isAuthenticated' = FALSE /\ current' = "none"
  /\ stale' = InProgress

HoldsBack(r) == req[r].answer = "401" /\ ~ req[r].retried /\ r \notin Skips
Held(r, place, retried) == [NoRequest EXCEPT !.at = place, !.retried = retried]

ReceiveHeld(r) ==
  /\ HoldsBack(r)
  /\ IF leader # Null
     THEN /\ req' = [req EXCEPT ![r] = Held(r, "queued", FALSE)]
          /\ UNCHANGED leader
     ELSE /\ leader' = r
          /\ req' = [req EXCEPT ![r] = Held(r, "leading", TRUE),
                                !["silent"] = Sent("silent", Null, CookieAfter(r))]
  /\ UNCHANGED <<token, store>>

ReceiveOther(r) ==
  /\ r # "silent" /\ ~ HoldsBack(r)
  /\ req' = [req EXCEPT ![r] = Over(r, req[r].answer)]
  /\ UNCHANGED <<token, leader, store>>

\* The requests that wait for the silent refresh.
Waiting == {r \in Requests : req[r].at \in {"queued", "leading"}}

\* The new token is stored, whatever the store has done in the meantime, and
\* the waiting requests are sent again with it.
SilentSucceeds ==
  /\ req["silent"].answer = "ok"
  /\ token' = req["silent"].gen
  /\ req' = [r \in Requests |->
       IF r \in Waiting
       THEN Sent(r, req["silent"].gen, req["silent"].gen)
       ELSE IF r = "silent" THEN NoRequest ELSE req[r]]
  /\ leader' = Null
  /\ UNCHANGED store

\* Variant: the queue is forgotten when the refresh fails.
OnlyLeader == {r \in Requests : req[r].at = "leading"}

\* Whom a failed refresh rejects: processQueue, and the leader.
Rejected == {r \in Requests : req[r].at \in {"queued", "leading"}}

\* The token and the marker go, and the listener of session-expired signs out
\* an authenticated user.
SilentFails(answer) ==
  /\ answer # "ok"
  /\ req' = [r \in Requests |->
       IF r \in Rejected THEN Over(r, "no") ELSE IF r = "silent" THEN NoRequest ELSE req[r]]
  /\ leader' = Null
  /\ IF isAuthenticated THEN SignedOut
     ELSE /\ token' = Null /\ persisted' = FALSE
          /\ UNCHANGED <<isAuthenticated, current, stale>>
  /\ UNCHANGED <<isInitialized, boot, signin, signout>>

\* An answer arrives.
Receive(r) ==
  /\ Turn /\ req[r].at = "answered"
  /\ jar' = CookieAfter(r)
  /\ \/ ReceiveHeld(r) \/ ReceiveOther(r)
     \/ r = "silent" /\ (SilentSucceeds \/ SilentFails(req[r].answer))
  /\ UNCHANGED server

\* None arrives within 15 seconds, or the connection or the server fails, which
\* is the same to the client.
TimeOut(r) ==
  /\ Turn /\ req[r].at \in {"sent", "answered"}
  /\ \/ /\ r # "silent"
        /\ req' = [req EXCEPT ![r] = Over(r, "no")]
        /\ UNCHANGED <<token, leader, store>>
     \/ r = "silent" /\ SilentFails("no")
  /\ UNCHANGED <<server, jar>>

\* A page makes a request, when its last one is done.  The page that waits for
\* approval polls without looking at isAuthenticated or isInitialized.
Call(c) ==
  /\ Turn /\ boot # "start"
  /\ req[c].at = "idle"
  /\ req' = [req EXCEPT ![c] = NewRequest(c, token)]
  /\ UNCHANGED <<server, jar, token, leader, store>>

-----------------------------------------------------------------------------
(* initialize *)

Start ==
  /\ Turn /\ boot = "start" /\ current' = "boot"
  /\ IF persisted
     THEN /\ boot' = "refresh"
          /\ req' = [req EXCEPT !["boot"] = NewRequest("boot", Null)]
          /\ UNCHANGED <<token, isInitialized, isAuthenticated>>
     ELSE /\ boot' = "over" /\ token' = Null
          /\ isInitialized' = TRUE /\ isAuthenticated' = FALSE
          /\ UNCHANGED req
  /\ UNCHANGED <<server, jar, leader, persisted, signin, signout, stale>>

\* Variant: a superseded initialize goes on.
EvenStale(op) == TRUE

IsCurrent(op) == current = op

\* The refresh fails, or takes longer than AUTH_BOOTSTRAP_TIMEOUT_MS.
BootFails ==
  /\ boot' = "over"
  /\ IF IsCurrent("boot") THEN SignedOut /\ isInitialized' = TRUE
     ELSE UNCHANGED <<token, persisted, isAuthenticated, current, stale, isInitialized>>

BootHydrates(ok) ==
  /\ boot' = "over"
  /\ IF IsCurrent("boot")
     THEN /\ isAuthenticated' = TRUE /\ isInitialized' = TRUE
          /\ persisted' = (persisted \/ ok)
     ELSE UNCHANGED <<isAuthenticated, isInitialized, persisted>>
  /\ UNCHANGED <<token, current, stale>>

Consume(r) == req' = [req EXCEPT ![r] = NoRequest]

ContinueBoot ==
  /\ req["boot"].at = "done"
  /\ \/ /\ boot = "refresh" /\ req["boot"].answer # "ok"
        /\ BootFails /\ Consume("boot")
     \/ /\ boot = "refresh" /\ req["boot"].answer = "ok" /\ ~ IsCurrent("boot")
        /\ boot' = "over" /\ Consume("boot")
        /\ UNCHANGED <<token, persisted, isAuthenticated, current, stale, isInitialized>>
     \/ /\ boot = "refresh" /\ req["boot"].answer = "ok" /\ IsCurrent("boot")
        /\ boot' = "profile" /\ token' = req["boot"].gen
        /\ req' = [req EXCEPT !["boot"] = NoRequest,
                              !["profile"] = NewRequest("profile", req["boot"].gen)]
        /\ UNCHANGED <<persisted, isAuthenticated, current, stale, isInitialized>>
     \/ /\ boot # "refresh" /\ Consume("boot")
        /\ UNCHANGED <<boot, token, persisted, isAuthenticated, current, stale, isInitialized>>
  /\ UNCHANGED <<server, jar, leader, signin, signout>>

ContinueProfile ==
  /\ req["profile"].at = "done" /\ Consume("profile")
  /\ \/ boot = "profile" /\ BootHydrates(req["profile"].answer = "ok")
     \/ boot # "profile" /\ UNCHANGED <<boot, token, isAuthenticated, isInitialized, persisted, current, stale>>
  /\ UNCHANGED <<server, jar, leader, signin, signout>>

\* The bootstrap gives up a request; the request goes on.
BootTimeout ==
  /\ Turn
  /\ \/ boot = "refresh" /\ BootFails
     \/ boot = "profile" /\ BootHydrates(FALSE)
  /\ UNCHANGED <<server, jar, req, leader, signin, signout>>

-----------------------------------------------------------------------------
(* login and logout *)

\* AuthRedirect shows the form when the app is initialized and nobody is in.
Login ==
  /\ Turn /\ isInitialized /\ ~ isAuthenticated /\ signin = "idle"
  /\ signin' = "wait" /\ current' = "login" /\ stale' = stale \ {"login"}
  /\ req' = [req EXCEPT !["login"] = NewRequest("login", Null)]
  /\ UNCHANGED <<server, jar, token, leader, isAuthenticated, isInitialized, persisted, boot, signout>>

ContinueLogin ==
  /\ req["login"].at = "done" /\ Consume("login")
  /\ signin' = "idle"
  /\ IF req["login"].answer = "ok" /\ IsCurrent("login")
     THEN token' = req["login"].gen /\ persisted' = TRUE /\ isAuthenticated' = TRUE
     ELSE UNCHANGED <<token, persisted, isAuthenticated>>
  /\ UNCHANGED <<server, jar, leader, isInitialized, current, boot, signout, stale>>

\* The logout request, with the token that is about to be cleared, if there is
\* one or the storage said that there is a session.
SayGoodbye(r, t, marked) ==
  req' = [req EXCEPT ![r] = NoRequest,
            !["logout"] = IF t # Null \/ marked THEN NewRequest("logout", t) ELSE @]

\* The page that waits for approval offers it at any time, the others to a user
\* who is signed in.
Logout ==
  /\ Turn /\ boot # "start" /\ signout = "idle"
  /\ req["logout"].at = "idle"
  /\ IF token # Null /\ token \in expired
     THEN /\ signout' = IF persisted THEN "marked" ELSE "unmarked"
          /\ current' = "logout"
          /\ req' = [req EXCEPT !["bye"] = NewRequest("bye", Null)]
          /\ UNCHANGED <<token, persisted, isAuthenticated, stale>>
     ELSE SayGoodbye("bye", token, persisted) /\ SignedOut /\ UNCHANGED signout
  /\ UNCHANGED <<server, jar, leader, isInitialized, boot, signin>>

\* A refresh that fails leaves the token that is there for the request.
ContinueLogout ==
  /\ req["bye"].at = "done" /\ signout' = "idle"
  /\ IF IsCurrent("logout")
     THEN /\ SayGoodbye("bye", IF req["bye"].answer = "ok" THEN req["bye"].gen ELSE token,
                        signout = "marked")
          /\ SignedOut
     ELSE /\ Consume("bye") /\ UNCHANGED <<token, persisted, isAuthenticated, current, stale>>
  /\ UNCHANGED <<server, jar, leader, isInitialized, boot, signin>>

-----------------------------------------------------------------------------
Continue == ContinueBoot \/ ContinueProfile \/ ContinueLogin \/ ContinueLogout

ClientNext ==
  \/ \E r \in Requests : Answer(r) \/ Receive(r) \/ TimeOut(r)
  \/ \E t \in 1 .. MaxTokens : Expire(t)
  \/ EndElsewhere
  \/ \E c \in Calls : Call(c)
  \/ Start \/ BootTimeout \/ Login \/ Logout \/ Continue

\* The page starts initialize, an operation that has its answer goes on, and no
\* request stays out for ever: an answer or the client's timeout of 15 seconds
\* ends it.  This is said of the state, and not as WF_clientVars(Receive(r) \/
\* TimeOut(r)), because a task that is due stays in the queue of the event loop
\* while the store goes on and Turn forbids it.
Fairness ==
  /\ WF_clientVars(Start) /\ WF_clientVars(Continue)
  /\ \A r \in Requests : []<>(req[r].at \notin {"sent", "answered"})

ClientSpec == ClientInit /\ [][ClientNext]_clientVars
FairClientSpec == ClientSpec /\ Fairness

-----------------------------------------------------------------------------
(* Properties *)

ClientTypeOK ==
  /\ live \subseteq 1 .. issued /\ expired \subseteq 1 .. issued /\ issued \in 1 .. MaxTokens
  /\ blocked \in BOOLEAN
  /\ jar \in (1 .. issued) \cup {Null} /\ token \in (1 .. issued) \cup {Null}
  /\ req \in [Requests -> [at : {"idle", "sent", "answered", "queued", "leading", "done"},
                           token : (1 .. issued) \cup {Null}, cookie : (1 .. issued) \cup {Null},
                           retried : BOOLEAN, answer : {"none", "ok", "401", "no"},
                           gen : (1 .. issued) \cup {Null}]]
  /\ leader \in (Requests \ Skips) \cup {Null}
  /\ {isAuthenticated, isInitialized, persisted} \subseteq BOOLEAN
  /\ current \in {"none", "boot", "login", "logout"}
  /\ boot \in {"start", "refresh", "profile", "over"}
  /\ signin \in {"idle", "wait"} /\ signout \in {"idle", "marked", "unmarked"}
  /\ stale \subseteq {"boot", "login"}

\* An operation that was in progress when the user was signed out does not sign
\* the user in again (the operation ids of the store).
SignedOutStays == [][
  ~ isAuthenticated /\ isAuthenticated' =>
    /\ boot = "profile" /\ boot' = "over" => "boot" \notin stale
    /\ signin = "wait" /\ signin' = "idle" => "login" \notin stale]_clientVars

\* Every request of a page comes to an end, whatever refreshes, sign-outs and
\* failures come in between.
CallsSettle == \A c \in Calls : req[c].at = "sent" ~> req[c].at = "idle"

\* Every store operation comes to an end.
OperationsSettle ==
  /\ <>[](boot = "over")
  /\ signin = "wait" ~> signin = "idle"
  /\ signout # "idle" ~> signout = "idle"
=============================================================================
