---------------------------- MODULE MintApproval ----------------------------
(***************************************************************************)
(* Mint requests (routes/mintRequests.ts): a user submits a token to mint, *)
(* a banker approves or rejects it by one of two links sent by email, and  *)
(* after the mint the user reports the transaction, which is verified on   *)
(* chain and recorded.                                                     *)
(*                                                                         *)
(* Every request of the API runs in a handler of the Express server, and   *)
(* any other handler may run wherever one awaits the database, the mail    *)
(* server or the chain.  One action is what a handler does between two     *)
(* such awaits; what the handler read before is in its locals.  The        *)
(* database runs a transaction at read committed: each statement of it     *)
(* sees what was committed before the statement, so a transaction that     *)
(* reads and then writes is two actions.                                   *)
(***************************************************************************)
EXTENDS Naturals, FiniteSets

CONSTANTS
  Users, Configs,              \* who asks, and for which token (the fingerprint)
  Txs, MintOf,                 \* mint transactions, and the token each created
  Submits, Clicks, Marks,      \* the handlers of /submit, /action, /mark-minted
  Nothing,                     \* null
  MaxRows,                     \* bound: requests ever submitted
  MaxCrashes                   \* bound: restarts of the server

Rows    == 1 .. MaxRows
Actions == {"approve", "reject"}

ASSUME MintAssumption ==
  /\ MaxRows \in Nat /\ MaxCrashes \in Nat
  /\ Nothing \notin Txs \cup Users \cup Configs
  /\ MintOf \in [Txs -> Configs]

VARIABLES
  requests,   \* MintApprovalRequest, by id
  links,      \* the action tokens of a request: "none", "fresh" or "used"
  expired,    \* requests whose links are past expiresAt
  mailed,     \* requests whose links the banker received
  broken,     \* history: requests whose submission broke off, by a statement or a restart
  submit, click, mark,         \* the handlers' progress and locals
  crashes

handlers == <<submit, click, mark>>
vars == <<requests, links, expired, mailed, handlers, crashes, broken>>

Statuses == {"none", "pending", "approved", "rejected", "minted", "deleted"}
NoRow    == [status |-> "none", user |-> Nothing, config |-> Nothing, tx |-> Nothing]
IdleSubmit == [phase |-> "idle", user |-> Nothing, config |-> Nothing, row |-> 0]
IdleClick  == [phase |-> "idle", row |-> 0, action |-> "none"]
IdleMark   == [phase |-> "idle", row |-> 0, tx |-> Nothing, seen |-> "none"]

Init ==
  /\ requests = [r \in Rows |-> NoRow]
  /\ links = [r \in Rows |-> [a \in Actions |-> "none"]]
  /\ expired = {} /\ mailed = {} /\ broken = {}
  /\ submit = [s \in Submits |-> IdleSubmit]
  /\ click = [c \in Clicks |-> IdleClick]
  /\ mark = [m \in Marks |-> IdleMark]
  /\ crashes = 0

Exists(r) == requests[r].status \notin {"none", "deleted"}

-----------------------------------------------------------------------------
(* POST /submit *)

\* findFirst finds no open request of the user for this token.  If it finds
\* one, the handler answers with it and leaves no trace.
SubmitLookup(s, u, g) ==
  /\ submit[s].phase = "idle"
  /\ ~ \E r \in Rows : /\ requests[r].user = u /\ requests[r].config = g
                       /\ requests[r].status \in {"pending", "approved"}
  /\ submit' = [submit EXCEPT ![s] = [phase |-> "create", user |-> u, config |-> g, row |-> 0]]
  /\ UNCHANGED <<requests, links, expired, mailed, click, mark, crashes, broken>>

SubmitCreate(s) ==
  /\ submit[s].phase = "create"
  /\ \E r \in Rows :
       /\ requests[r].status = "none"
       /\ \A q \in 1 .. r - 1 : requests[q].status # "none"
       /\ requests' = [requests EXCEPT ![r] = [status |-> "pending", tx |-> Nothing,
            user |-> submit[s].user, config |-> submit[s].config]]
       /\ submit' = [submit EXCEPT ![s].phase = "link", ![s].row = r]
  /\ UNCHANGED <<links, expired, mailed, click, mark, crashes, broken>>

SubmitLink(s) ==
  /\ submit[s].phase = "link"
  /\ links' = [links EXCEPT ![submit[s].row] = [a \in Actions |-> "fresh"]]
  /\ submit' = [submit EXCEPT ![s].phase = "mail"]
  /\ UNCHANGED <<requests, expired, mailed, click, mark, crashes, broken>>

\* The mail is sent, or the call fails; a call that fails may have sent it.
SubmitMail(s) ==
  /\ submit[s].phase = "mail"
  /\ \/ /\ mailed' = mailed \cup {submit[s].row}
        /\ submit' = [submit EXCEPT ![s] = IdleSubmit]
     \/ /\ mailed' \in {mailed, mailed \cup {submit[s].row}}
        /\ submit' = [submit EXCEPT ![s].phase = "undo"]
  /\ UNCHANGED <<requests, links, expired, click, mark, crashes, broken>>

\* Variant: a failed mail leaves the request behind.
SubmitAbandon(s) ==
  /\ submit[s].phase = "undo"
  /\ submit' = [submit EXCEPT ![s] = IdleSubmit]
  /\ UNCHANGED <<requests, links, expired, mailed, click, mark, crashes, broken>>

SubmitUndo(s) ==
  LET r == submit[s].row IN
  /\ submit[s].phase = "undo"
  /\ requests' = [requests EXCEPT ![r] = [NoRow EXCEPT !.status = "deleted"]]
  /\ links' = [links EXCEPT ![r] = [a \in Actions |-> "none"]]
  /\ submit' = [submit EXCEPT ![s] = IdleSubmit]
  /\ UNCHANGED <<expired, mailed, click, mark, crashes, broken>>

\* The database refuses a statement, and the handler answers with an error; the
\* request, if it is created and not deleted, is left as it is.
SubmitFail(s) ==
  /\ submit[s].phase \in {"create", "link", "undo"}
  /\ broken' = broken \cup ({submit[s].row} \cap Rows)
  /\ submit' = [submit EXCEPT ![s] = IdleSubmit]
  /\ UNCHANGED <<requests, links, expired, mailed, click, mark, crashes>>

-----------------------------------------------------------------------------
(* GET /action/:token.  A click, or a report below, that a failing statement *)
(* ends leaves no trace: it is as if it had not been made.                   *)

\* Variant: only the expiry is looked at.
UsableUnlessExpired(r, a) == r \in mailed /\ r \notin expired /\ Exists(r)

\* The token and its request are read together; a link that is gone, used or
\* expired, or a request that is not pending any more, ends the handler.
Usable(r, a) ==
  /\ r \in mailed /\ links[r][a] = "fresh" /\ r \notin expired
  /\ requests[r].status = "pending"

ClickCheck(c, r, a) ==
  /\ click[c].phase = "idle"
  /\ Usable(r, a)
  /\ click' = [click EXCEPT ![c] = [phase |-> "apply", row |-> r, action |-> a]]
  /\ UNCHANGED <<requests, links, expired, mailed, submit, mark, crashes, broken>>

\* Variant: the action's name is written as the status.
DecisionVerbatim(a) == a

Decision(a) == IF a = "approve" THEN "approved" ELSE "rejected"

\* The transaction marks the request's links used and writes the decision and
\* new review notes whatever the request holds now.  It fails if it is gone.
ClickApply(c) ==
  LET r == click[c].row IN
  /\ click[c].phase = "apply"
  /\ click' = [click EXCEPT ![c] = IdleClick]
  /\ \/ /\ Exists(r)
        /\ links' = [links EXCEPT ![r] = [a \in Actions |-> "used"]]
        /\ requests' = [requests EXCEPT ![r].status = Decision(click[c].action),
                                        ![r].tx = Nothing]
     \/ ~ Exists(r) /\ UNCHANGED <<requests, links>>
  /\ UNCHANGED <<expired, mailed, submit, mark, crashes, broken>>

-----------------------------------------------------------------------------
(* POST /:requestId/mark-minted *)

\* Only an approved request, or a minted one whose notes name no transaction,
\* gets beyond the checks; the handler makes them twice, before and after the
\* verification.
MayMark(r) ==
  \/ requests[r].status = "approved"
  \/ requests[r].status = "minted" /\ requests[r].tx = Nothing

MarkRead(m, r, t) ==
  /\ mark[m].phase = "idle"
  /\ MayMark(r)
  /\ mark' = [mark EXCEPT ![m] = [phase |-> "verify", row |-> r, tx |-> t, seen |-> "none"]]
  /\ UNCHANGED <<requests, links, expired, mailed, submit, click, crashes, broken>>

\* Variant: any mint will do.
AnyMint(t, r) == TRUE

\* The chain confirms that the transaction minted the request's token, or an
\* endpoint fails, or the transaction minted something else.
Matches(t, r) == MintOf[t] = requests[r].config

MarkVerify(m) ==
  /\ mark[m].phase = "verify"
  /\ \/ /\ Matches(mark[m].tx, mark[m].row)
        /\ mark' = [mark EXCEPT ![m].phase = "lock"]
     \/ mark' = [mark EXCEPT ![m] = IdleMark]
  /\ UNCHANGED <<requests, links, expired, mailed, submit, click, crashes, broken>>

\* Variant: no advisory lock.
NeverLocked(t) == FALSE

Locked(t) == \E n \in Marks : mark[n].phase = "update" /\ mark[n].tx = t

Recorded(r, t) == requests[r].status = "minted" /\ requests[r].tx = t

\* pg_advisory_xact_lock on the transaction's hash, the second reading of the
\* request, and the search for another minted request with the same hash.
MarkLock(m) ==
  LET r == mark[m].row
      t == mark[m].tx
  IN
  /\ mark[m].phase = "lock"
  /\ ~ Locked(t)
  /\ \/ /\ MayMark(r)
        /\ ~ \E q \in Rows \ {r} : Recorded(q, t)
        /\ mark' = [mark EXCEPT ![m].phase = "update", ![m].seen = requests[r].status]
     \/ /\ ~ MayMark(r) \/ \E q \in Rows \ {r} : Recorded(q, t)
        /\ mark' = [mark EXCEPT ![m] = IdleMark]
  /\ UNCHANGED <<requests, links, expired, mailed, submit, click, crashes, broken>>

\* Variant: the update is unconditional.
WhateverSeen(m) == TRUE

\* updateMany changes the request only if it still is what the transaction saw;
\* the commit releases the lock.
StillSeen(m) ==
  LET row == requests[mark[m].row] IN
  row.status = mark[m].seen /\ (mark[m].seen = "minted" => row.tx = Nothing)

MarkUpdate(m) ==
  LET r == mark[m].row IN
  /\ mark[m].phase = "update"
  /\ mark' = [mark EXCEPT ![m] = IdleMark]
  /\ \/ /\ StillSeen(m)
        /\ requests' = [requests EXCEPT ![r].status = "minted", ![r].tx = mark[m].tx]
     \/ ~ StillSeen(m) /\ UNCHANGED requests
  /\ UNCHANGED <<links, expired, mailed, submit, click, crashes, broken>>

-----------------------------------------------------------------------------
(* Environment *)

Expire(r) ==
  /\ links[r]["approve"] = "fresh" /\ r \notin expired
  /\ expired' = expired \cup {r}
  /\ UNCHANGED <<requests, links, mailed, handlers, crashes, broken>>

\* The server restarts: what the handlers were doing is lost, what they
\* committed is not, and an open transaction is rolled back.
Crash ==
  /\ crashes < MaxCrashes
  /\ crashes' = crashes + 1
  /\ submit' = [s \in Submits |-> IdleSubmit]
  /\ click' = [c \in Clicks |-> IdleClick]
  /\ mark' = [m \in Marks |-> IdleMark]
  /\ broken' = broken \cup ({submit[s].row : s \in Submits} \cap Rows)
  /\ UNCHANGED <<requests, links, expired, mailed>>

SubmitStep(s) ==
  \/ \E u \in Users, g \in Configs : SubmitLookup(s, u, g)
  \/ SubmitCreate(s) \/ SubmitLink(s) \/ SubmitMail(s) \/ SubmitUndo(s) \/ SubmitFail(s)

ClickStep(c) ==
  \/ \E r \in Rows, a \in Actions : ClickCheck(c, r, a)
  \/ ClickApply(c)

MarkStep(m) ==
  \/ \E r \in Rows, t \in Txs : MarkRead(m, r, t)
  \/ MarkVerify(m) \/ MarkLock(m) \/ MarkUpdate(m)

Next ==
  \/ \E s \in Submits : SubmitStep(s)
  \/ \E c \in Clicks : ClickStep(c)
  \/ \E m \in Marks : MarkStep(m)
  \/ \E r \in Rows : Expire(r)
  \/ Crash

Spec == Init /\ [][Next]_vars

-----------------------------------------------------------------------------
(* Properties *)

Row == [status : Statuses, user : Users \cup {Nothing}, config : Configs \cup {Nothing},
        tx : Txs \cup {Nothing}]

SubmitLocals == [phase : {"idle", "create", "link", "mail", "undo"}, row : Rows \cup {0},
                 user : Users \cup {Nothing}, config : Configs \cup {Nothing}]
ClickLocals  == [phase : {"idle", "apply"}, row : Rows \cup {0}, action : Actions \cup {"none"}]
MarkLocals   == [phase : {"idle", "verify", "lock", "update"}, row : Rows \cup {0},
                 tx : Txs \cup {Nothing}, seen : Statuses]

RowsOK   == /\ requests \in [Rows -> Row]
            /\ links \in [Rows -> [Actions -> {"none", "fresh", "used"}]]
            /\ expired \subseteq Rows /\ mailed \subseteq Rows
            /\ crashes \in Nat /\ broken \subseteq Rows
SubmitOK == /\ submit \in [Submits -> SubmitLocals]
            /\ \A s \in Submits : submit[s].phase \in {"link", "mail", "undo"} => submit[s].row \in Rows
ClickOK  == /\ click \in [Clicks -> ClickLocals]
            /\ \A c \in Clicks : click[c].phase = "apply" => click[c].row \in Rows
MarkOK   == /\ mark \in [Marks -> MarkLocals]
            /\ \A m \in Marks : mark[m].phase # "idle" => mark[m].row \in Rows /\ mark[m].tx \in Txs

TypeOK == RowsOK /\ SubmitOK /\ ClickOK /\ MarkOK

\* No two requests are recorded with the same mint transaction at once: two
\* handlers that verified the same hash for two requests are kept apart by the
\* advisory lock, in whatever order they run.  A late click that reopens a minted
\* request forgets its hash, and another request may then be recorded with it.
TxFinalizesOne ==
  \A r, q \in Rows, t \in Txs : Recorded(r, t) /\ Recorded(q, t) => r = q

\* A minted request names the transaction that minted its own token.
MintIsVerified ==
  \A r \in Rows : requests[r].status = "minted" =>
    requests[r].tx # Nothing /\ MintOf[requests[r].tx] = requests[r].config

\* A request becomes minted only from approved: a decision that changes while
\* the chain is asked, or between the transaction's reading and its update,
\* stops the finalization.
OnlyApprovedIsMinted ==
  [][\A r \in Rows :
       requests'[r].status = "minted" /\ requests[r].status # "minted"
         => requests[r].status = "approved"]_vars

\* A pending request that no handler is submitting has two links the banker
\* received and has not used, so that until they expire it does not wait for a
\* decision nobody can take, unless its own submission broke off: a mail that
\* fails, restarts during other submissions and clicks leave no such request.
PendingIsDecidable ==
  \A r \in Rows \ broken :
    /\ requests[r].status = "pending"
    /\ \A s \in Submits : submit[s].row # r
    => r \in mailed /\ \A a \in Actions : links[r][a] = "fresh"

\* Whatever is awaited in between, the handlers implement the abstract approval:
\* a decision in hand was taken while the request was pending, only those are
\* written, and a request whose decisions are written is decided for good.
Asked == INSTANCE Approval WITH
  Requests <- Rows,
  status <- [r \in Rows |-> CASE requests[r].status = "minted"  -> "executed"
                              [] requests[r].status = "deleted" -> "withdrawn"
                              [] OTHER -> requests[r].status],
  taken <- [r \in Rows |-> {Decision(click[c].action) :
              c \in {k \in Clicks : click[k].phase = "apply" /\ click[k].row = r}}]

ImplementsApproval == Asked!Spec
=============================================================================
