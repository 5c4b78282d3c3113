------------------------- MODULE MintApprovalProofs -------------------------
(***************************************************************************)
(* For every number of users, requests, transactions and handlers: types,  *)
(* what the advisory lock and the second reading are for, that a mint is   *)
(* verified and a pending request can be decided, that the handlers        *)
(* together do nothing but what Approval allows, and that what is decided  *)
(* stays so, with every link spent.                                        *)
(***************************************************************************)
EXTENDS MintApproval, TLAPS

(***************************************************************************)
(* Types.  A step changes one handler; the lemmas say that the locals it   *)
(* gets and the row it writes have their types.                            *)
(***************************************************************************)
LEMMA IdleTypes ==
  /\ IdleSubmit \in SubmitLocals /\ IdleSubmit.phase = "idle"
  /\ IdleClick \in ClickLocals /\ IdleClick.phase = "idle"
  /\ IdleMark \in MarkLocals /\ IdleMark.phase = "idle"
  /\ NoRow \in Row
<1>1. IdleSubmit \in SubmitLocals /\ IdleSubmit.phase = "idle"
  BY DEF IdleSubmit, SubmitLocals
<1>2. IdleClick \in ClickLocals /\ IdleClick.phase = "idle"
  BY DEF IdleClick, ClickLocals
<1>3. IdleMark \in MarkLocals /\ IdleMark.phase = "idle"
  BY DEF IdleMark, MarkLocals, Statuses
<1>4. NoRow \in Row
  BY DEF NoRow, Row, Statuses
<1>5. QED BY <1>1, <1>2, <1>3, <1>4

LEMMA InitType == Init => TypeOK
<1> SUFFICES ASSUME Init PROVE TypeOK
  OBVIOUS
<1>1. RowsOK
  <2>1. requests \in [Rows -> Row]
    BY IdleTypes DEF Init
  <2>2. links \in [Rows -> [Actions -> {"none", "fresh", "used"}]]
    BY DEF Init
  <2>3. QED BY <2>1, <2>2 DEF Init, RowsOK
<1>2. SubmitOK BY IdleTypes DEF Init, SubmitOK
<1>3. ClickOK BY IdleTypes DEF Init, ClickOK
<1>4. MarkOK BY IdleTypes DEF Init, MarkOK
<1>5. QED BY <1>1, <1>2, <1>3, <1>4 DEF TypeOK

LEMMA SubmitSet ==
  ASSUME SubmitOK, NEW s \in Submits, NEW x \in SubmitLocals,
         x.phase \in {"link", "mail", "undo"} => x.row \in Rows,
         submit' = [submit EXCEPT ![s] = x]
  PROVE  SubmitOK'
BY DEF SubmitOK

LEMMA ClickSet ==
  ASSUME ClickOK, NEW c \in Clicks, NEW x \in ClickLocals,
         x.phase = "apply" => x.row \in Rows,
         click' = [click EXCEPT ![c] = x]
  PROVE  ClickOK'
BY DEF ClickOK

LEMMA MarkSet ==
  ASSUME MarkOK, NEW m \in Marks, NEW x \in MarkLocals,
         x.phase # "idle" => x.row \in Rows /\ x.tx \in Txs,
         mark' = [mark EXCEPT ![m] = x]
  PROVE  MarkOK'
BY DEF MarkOK

LEMMA RowSet ==
  ASSUME RowsOK, NEW r \in Rows, NEW x \in Row,
         requests' = [requests EXCEPT ![r] = x],
         links' \in [Rows -> [Actions -> {"none", "fresh", "used"}]],
         UNCHANGED <<expired, mailed, crashes, broken>>
  PROVE  RowsOK'
BY DEF RowsOK

\* The handlers that do not move keep their types.
LEMMA Kept ==
  /\ SubmitOK /\ UNCHANGED submit => SubmitOK'
  /\ ClickOK /\ UNCHANGED click => ClickOK'
  /\ MarkOK /\ UNCHANGED mark => MarkOK'
  /\ RowsOK /\ UNCHANGED <<requests, links, expired, mailed, crashes, broken>> => RowsOK'
BY DEF SubmitOK, ClickOK, MarkOK, RowsOK

LEMMA SubmitStepType ==
  ASSUME TypeOK, NEW s \in Submits, SubmitStep(s)
  PROVE  TypeOK'
<1> USE DEF TypeOK
<1>0. submit[s] \in SubmitLocals /\ submit \in [Submits -> SubmitLocals]
  BY DEF SubmitOK
<1>1. ASSUME NEW u \in Users, NEW g \in Configs, SubmitLookup(s, u, g) PROVE TypeOK'
  <2> DEFINE x == [phase |-> "create", user |-> u, config |-> g, row |-> 0]
  <2>1. x \in SubmitLocals /\ x.phase = "create"
    BY DEF SubmitLocals
  <2>2. submit' = [submit EXCEPT ![s] = x]
    BY <1>1 DEF SubmitLookup
  <2>3. SubmitOK'
    <3> HIDE DEF x
    <3>1. QED BY <2>1, <2>2, SubmitSet
  <2>4. QED BY <1>1, <2>3, Kept DEF SubmitLookup
<1>2. CASE SubmitCreate(s)
  <2>1. PICK r \in Rows :
          /\ requests' = [requests EXCEPT ![r] = [status |-> "pending", tx |-> Nothing,
               user |-> submit[s].user, config |-> submit[s].config]]
          /\ submit' = [submit EXCEPT ![s].phase = "link", ![s].row = r]
    BY <1>2 DEF SubmitCreate
  <2> DEFINE y == [status |-> "pending", tx |-> Nothing,
                   user |-> submit[s].user, config |-> submit[s].config]
  <2> DEFINE x == [submit[s] EXCEPT !.phase = "link", !.row = r]
  <2>2. y \in Row
    BY <1>0 DEF SubmitLocals, Row, Statuses
  <2>3. x \in SubmitLocals /\ x.row = r
    BY <1>0 DEF SubmitLocals
  <2>4. submit' = [submit EXCEPT ![s] = x]
    BY <2>1, <1>0 DEF SubmitLocals
  <2>5. SubmitOK'
    <3> HIDE DEF x
    <3>1. QED BY <2>3, <2>4, SubmitSet
  <2>6. RowsOK'
    <3>1. requests' = [requests EXCEPT ![r] = y]
      BY <2>1
    <3>2. UNCHANGED <<links, expired, mailed, crashes, broken>>
      BY <1>2 DEF SubmitCreate
    <3>3. links' \in [Rows -> [Actions -> {"none", "fresh", "used"}]]
      BY <3>2 DEF RowsOK
    <3> HIDE DEF y
    <3>4. QED BY <2>2, <3>1, <3>2, <3>3, RowSet
  <2>7. QED BY <1>2, <2>5, <2>6, Kept DEF SubmitCreate
<1>3. ASSUME NEW p \in {"mail", "undo"}, submit[s].row \in Rows,
             submit' = [submit EXCEPT ![s].phase = p]
      PROVE  SubmitOK'
  <2> DEFINE x == [submit[s] EXCEPT !.phase = p]
  <2>1. x \in SubmitLocals /\ x.row \in Rows
    BY <1>0, <1>3 DEF SubmitLocals
  <2>2. submit' = [submit EXCEPT ![s] = x]
    BY <1>3, <1>0
  <2> HIDE DEF x
  <2>3. QED BY <2>1, <2>2, SubmitSet
<1>4. ASSUME submit' = [submit EXCEPT ![s] = IdleSubmit] PROVE SubmitOK'
  BY <1>4, IdleTypes, SubmitSet
<1>5. CASE SubmitLink(s)
  <2>1. submit[s].row \in Rows
    BY <1>5 DEF SubmitLink, SubmitOK
  <2>2. SubmitOK'
    BY <1>3, <1>5, <2>1 DEF SubmitLink
  <2>3. RowsOK'
    BY <1>5, <2>1 DEF SubmitLink, RowsOK
  <2>4. QED BY <1>5, <2>2, <2>3, Kept DEF SubmitLink
<1>6. CASE SubmitMail(s)
  <2>1. submit[s].row \in Rows
    BY <1>6 DEF SubmitMail, SubmitOK
  <2>2. SubmitOK'
    BY <1>3, <1>4, <1>6, <2>1 DEF SubmitMail
  <2>3. RowsOK'
    BY <1>6, <2>1 DEF SubmitMail, RowsOK
  <2>4. QED BY <1>6, <2>2, <2>3, Kept DEF SubmitMail
<1>7. CASE SubmitUndo(s)
  <2>1. submit[s].row \in Rows
    BY <1>7 DEF SubmitUndo, SubmitOK
  <2> DEFINE r == submit[s].row
             y == [NoRow EXCEPT !.status = "deleted"]
  <2>2. y \in Row
    BY DEF NoRow, Row, Statuses
  <2>3. /\ requests' = [requests EXCEPT ![r] = y]
        /\ links' = [links EXCEPT ![r] = [a \in Actions |-> "none"]]
        /\ UNCHANGED <<expired, mailed, crashes, broken>>
    BY <1>7 DEF SubmitUndo
  <2>4. links' \in [Rows -> [Actions -> {"none", "fresh", "used"}]]
    BY <2>1, <2>3 DEF RowsOK
  <2>5. RowsOK'
    <3> HIDE DEF y, r
    <3>1. r \in Rows
      BY <2>1 DEF r
    <3>2. QED BY <3>1, <2>2, <2>3, <2>4, RowSet
  <2>6. QED BY <1>4, <1>7, <2>5, Kept DEF SubmitUndo
<1>8. CASE SubmitFail(s)
  <2>1. SubmitOK' /\ RowsOK'
    BY <1>4, <1>8 DEF SubmitFail, RowsOK
  <2>2. QED BY <1>8, <2>1, Kept DEF SubmitFail
<1>9. QED BY <1>1, <1>2, <1>5, <1>6, <1>7, <1>8 DEF SubmitStep

LEMMA ClickStepType ==
  ASSUME TypeOK, NEW c \in Clicks, ClickStep(c)
  PROVE  TypeOK'
<1> USE DEF TypeOK
<1>1. ASSUME NEW r \in Rows, NEW a \in Actions, ClickCheck(c, r, a) PROVE TypeOK'
  <2> DEFINE x == [phase |-> "apply", row |-> r, action |-> a]
  <2>1. x \in ClickLocals /\ x.row = r
    BY DEF ClickLocals
  <2>2. click' = [click EXCEPT ![c] = x]
    BY <1>1 DEF ClickCheck
  <2>3. ClickOK'
    <3> HIDE DEF x
    <3>1. QED BY <2>1, <2>2, ClickSet
  <2>4. QED BY <1>1, <2>3, Kept DEF ClickCheck
<1>2. CASE ClickApply(c)
  <2> DEFINE r == click[c].row
             y == [requests[r] EXCEPT !.status = Decision(click[c].action), !.tx = Nothing]
  <2>1. r \in Rows
    BY <1>2 DEF ClickApply, ClickOK
  <2>2. ClickOK'
    BY <1>2, IdleTypes, ClickSet DEF ClickApply
  <2>3. CASE Exists(r)
    <3>1. y \in Row
      <4>1. requests[r] \in Row
        BY <2>1 DEF RowsOK
      <4>2. QED BY <4>1 DEF Row, Statuses, Decision
    <3>2. /\ requests' = [requests EXCEPT ![r] = y]
          /\ links' = [links EXCEPT ![r] = [a \in Actions |-> "used"]]
          /\ UNCHANGED <<expired, mailed, crashes, broken>>
      <4>1. requests[r] \in Row /\ requests \in [Rows -> Row]
        BY <2>1 DEF RowsOK
      <4>2. QED BY <1>2, <2>3, <2>1, <4>1 DEF ClickApply, Row
    <3>3. links' \in [Rows -> [Actions -> {"none", "fresh", "used"}]]
      BY <2>1, <3>2 DEF RowsOK
    <3>4. RowsOK'
      <4> HIDE DEF y, r
      <4>1. QED BY <2>1, <3>1, <3>2, <3>3, RowSet
    <3>5. QED BY <1>2, <2>2, <3>4, Kept DEF ClickApply
  <2>4. CASE ~ Exists(r)
    BY <1>2, <2>2, <2>4, Kept DEF ClickApply
  <2>5. QED BY <2>3, <2>4
<1>3. QED BY <1>1, <1>2 DEF ClickStep

LEMMA MarkStepType ==
  ASSUME TypeOK, NEW m \in Marks, MarkStep(m)
  PROVE  TypeOK'
<1> USE DEF TypeOK
<1>0. mark[m] \in MarkLocals /\ mark \in [Marks -> MarkLocals]
  BY DEF MarkOK
<1>1. ASSUME NEW r \in Rows, NEW t \in Txs, MarkRead(m, r, t) PROVE TypeOK'
  <2> DEFINE x == [phase |-> "verify", row |-> r, tx |-> t, seen |-> "none"]
  <2>1. x \in MarkLocals /\ x.row = r /\ x.tx = t
    BY DEF MarkLocals, Statuses
  <2>2. mark' = [mark EXCEPT ![m] = x]
    BY <1>1 DEF MarkRead
  <2>3. MarkOK'
    <3> HIDE DEF x
    <3>1. QED BY <2>1, <2>2, MarkSet
  <2>4. QED BY <1>1, <2>3, Kept DEF MarkRead
<1>2. ASSUME mark' = [mark EXCEPT ![m] = IdleMark] PROVE MarkOK'
  BY <1>2, IdleTypes, MarkSet
<1>3. CASE MarkVerify(m)
  <2>1. mark[m].row \in Rows /\ mark[m].tx \in Txs
    BY <1>3 DEF MarkVerify, MarkOK
  <2>2. ASSUME mark' = [mark EXCEPT ![m].phase = "lock"] PROVE MarkOK'
    <3> DEFINE x == [mark[m] EXCEPT !.phase = "lock"]
    <3>1. x \in MarkLocals /\ x.row \in Rows /\ x.tx \in Txs
      BY <1>0, <2>1 DEF MarkLocals
    <3>2. mark' = [mark EXCEPT ![m] = x]
      BY <2>2, <1>0
    <3> HIDE DEF x
    <3>3. QED BY <3>1, <3>2, MarkSet
  <2>3. QED BY <1>2, <1>3, <2>2, Kept DEF MarkVerify
<1>4. CASE MarkLock(m)
  <2>1. mark[m].row \in Rows /\ mark[m].tx \in Txs
    BY <1>4 DEF MarkLock, MarkOK
  <2> DEFINE seen == requests[mark[m].row].status
  <2>2. ASSUME mark' = [mark EXCEPT ![m].phase = "update", ![m].seen = seen] PROVE MarkOK'
    <3> DEFINE x == [mark[m] EXCEPT !.phase = "update", !.seen = seen]
    <3>0. seen \in Statuses
      BY <2>1 DEF RowsOK, Row
    <3>2. mark' = [mark EXCEPT ![m] = x]
      BY <2>2, <1>0 DEF MarkLocals
    <3> HIDE DEF seen
    <3>1. x \in MarkLocals /\ x.row \in Rows /\ x.tx \in Txs
      BY <1>0, <2>1, <3>0 DEF MarkLocals
    <3> HIDE DEF x
    <3>3. QED BY <3>1, <3>2, MarkSet
  <2>3. QED BY <1>2, <1>4, <2>2, Kept DEF MarkLock
<1>5. CASE MarkUpdate(m)
  <2> DEFINE r == mark[m].row
             y == [requests[r] EXCEPT !.status = "minted", !.tx = mark[m].tx]
  <2>1. r \in Rows /\ mark[m].tx \in Txs
    BY <1>5 DEF MarkUpdate, MarkOK
  <2>2. MarkOK'
    BY <1>2, <1>5 DEF MarkUpdate
  <2>3. CASE StillSeen(m)
    <3>1. requests[r] \in Row /\ requests \in [Rows -> Row]
      BY <2>1 DEF RowsOK
    <3>2. y \in Row
      BY <2>1, <3>1 DEF Row, Statuses
    <3>3. requests' = [requests EXCEPT ![r] = y] /\ UNCHANGED <<links, expired, mailed, crashes, broken>>
      BY <1>5, <2>1, <2>3, <3>1 DEF MarkUpdate, Row
    <3>4. links' \in [Rows -> [Actions -> {"none", "fresh", "used"}]]
      BY <3>3 DEF RowsOK
    <3>5. RowsOK'
      <4> HIDE DEF y, r
      <4>1. QED BY <2>1, <3>2, <3>3, <3>4, RowSet
    <3>6. QED BY <1>5, <2>2, <3>5, Kept DEF MarkUpdate
  <2>4. CASE ~ StillSeen(m)
    BY <1>5, <2>2, <2>4, Kept DEF MarkUpdate
  <2>5. QED BY <2>3, <2>4
<1>6. QED BY <1>1, <1>3, <1>4, <1>5 DEF MarkStep

LEMMA StepType == TypeOK /\ [Next]_vars => TypeOK'
<1> SUFFICES ASSUME TypeOK, [Next]_vars PROVE TypeOK'
  OBVIOUS
<1>1. CASE UNCHANGED vars
  BY <1>1, Kept DEF vars, handlers, TypeOK
<1>2. ASSUME NEW r \in Rows, Expire(r) PROVE TypeOK'
  <2>1. RowsOK'
    BY <1>2 DEF Expire, handlers, TypeOK, RowsOK
  <2>2. QED BY <1>2, <2>1, Kept DEF Expire, handlers, TypeOK
<1>3. CASE Crash
  <2>1. SubmitOK'
    BY <1>3, IdleTypes DEF Crash, SubmitOK
  <2>2. ClickOK'
    BY <1>3, IdleTypes DEF Crash, ClickOK
  <2>3. MarkOK'
    BY <1>3, IdleTypes DEF Crash, MarkOK
  <2>4. RowsOK'
    BY <1>3 DEF Crash, TypeOK, RowsOK
  <2>5. QED BY <2>1, <2>2, <2>3, <2>4 DEF TypeOK
<1>4. QED BY <1>1, <1>2, <1>3, SubmitStepType, ClickStepType, MarkStepType DEF Next

(***************************************************************************)
(* Types are kept whatever the handlers do and whenever the server stops.  *)
(***************************************************************************)
THEOREM Typing == Spec => []TypeOK
BY InitType, StepType, PTL DEF Spec

(***************************************************************************)
(* The advisory lock.  A handler between its second reading and its update *)
(* is alone with its hash, no other request is finalized by the hash, and  *)
(* the reading it goes by was of an approved or a minted request.          *)
(***************************************************************************)
Holds(m) == mark[m].phase = "update"

Alone    == \A m, n \in Marks : Holds(m) /\ Holds(n) /\ mark[m].tx = mark[n].tx => m = n
Unused   == \A m \in Marks : Holds(m) => \A q \in Rows \ {mark[m].row} : ~ Recorded(q, mark[m].tx)
SeenOpen == \A m \in Marks : Holds(m) => mark[m].seen \in {"approved", "minted"}

LockInv == Alone /\ Unused /\ SeenOpen /\ TxFinalizesOne

LEMMA InitLock == Init => LockInv
<1> SUFFICES ASSUME Init PROVE LockInv
  OBVIOUS
<1>1. \A m \in Marks : ~ Holds(m)
  BY DEF Init, Holds, IdleMark
<1>2. \A r \in Rows : requests[r].status # "minted"
  BY DEF Init, NoRow
<1>3. QED BY <1>1, <1>2 DEF LockInv, Alone, Unused, SeenOpen, TxFinalizesOne, Recorded

\* A submission or a click finalizes nothing: what is minted after it was so
\* before it.
LEMMA MintedBefore ==
  ASSUME TypeOK,
         \/ \E s \in Submits : SubmitStep(s)
         \/ \E c \in Clicks : ClickStep(c)
  PROVE  /\ \A q \in Rows : requests'[q].status = "minted" => requests'[q] = requests[q]
         /\ UNCHANGED mark
<1> USE DEF TypeOK, RowsOK
<1>1. ASSUME NEW s \in Submits, SubmitStep(s)
      PROVE  /\ \A q \in Rows : requests'[q].status = "minted" => requests'[q] = requests[q]
             /\ UNCHANGED mark
  <2>1. CASE SubmitCreate(s)
    <3>1. PICK r \in Rows : requests' = [requests EXCEPT ![r] =
              [status |-> "pending", tx |-> Nothing,
               user |-> submit[s].user, config |-> submit[s].config]]
      BY <2>1 DEF SubmitCreate
    <3>2. requests'[r].status = "pending" /\ \A q \in Rows \ {r} : requests'[q] = requests[q]
      BY <3>1
    <3>3. QED BY <2>1, <3>2 DEF SubmitCreate
  <2>2. CASE SubmitUndo(s)
    <3>1. submit[s].row \in Rows
      BY <2>2 DEF SubmitUndo, SubmitOK
    <3>2. /\ requests'[submit[s].row].status = "deleted"
          /\ \A q \in Rows \ {submit[s].row} : requests'[q] = requests[q]
      BY <2>2, <3>1 DEF SubmitUndo, NoRow
    <3>3. QED BY <2>2, <3>2 DEF SubmitUndo
  <2>3. ASSUME UNCHANGED <<requests, mark>>
        PROVE  /\ \A q \in Rows : requests'[q].status = "minted" => requests'[q] = requests[q]
               /\ UNCHANGED mark
    BY <2>3
  <2>4. QED BY <1>1, <2>1, <2>2, <2>3 DEF SubmitStep, SubmitLookup, SubmitLink, SubmitMail, SubmitFail
<1>2. ASSUME NEW c \in Clicks, ClickStep(c)
      PROVE  /\ \A q \in Rows : requests'[q].status = "minted" => requests'[q] = requests[q]
             /\ UNCHANGED mark
  <2>1. CASE ClickApply(c)
    <3> DEFINE r == click[c].row
    <3>1. r \in Rows
      BY <2>1 DEF ClickApply, ClickOK
    <3>2. CASE Exists(r)
      <4>1. requests[r] \in Row /\ requests \in [Rows -> Row]
        BY <3>1
      <4>2. requests'[r].status = Decision(click[c].action)
        BY <2>1, <3>1, <3>2, <4>1 DEF ClickApply, Row
      <4>3. \A q \in Rows \ {r} : requests'[q] = requests[q]
        BY <2>1, <3>1, <3>2, <4>1 DEF ClickApply, Row
      <4>4. QED BY <2>1, <4>2, <4>3 DEF ClickApply, Decision
    <3>3. CASE ~ Exists(r)
      BY <2>1, <3>3 DEF ClickApply
    <3>4. QED BY <3>2, <3>3
  <2>2. CASE \E r \in Rows, a \in Actions : ClickCheck(c, r, a)
    BY <2>2 DEF ClickCheck
  <2>3. QED BY <1>2, <2>1, <2>2 DEF ClickStep
<1>3. QED BY <1>1, <1>2

\* Finalizations that only disappear, and handlers that only let go of the
\* lock, keep the invariant.
LEMMA LockKept ==
  ASSUME LockInv,
         \A q \in Rows : requests'[q].status = "minted" => requests'[q] = requests[q],
         \A m \in Marks : Holds(m)' => Holds(m) /\ mark'[m] = mark[m]
  PROVE  LockInv'
<1>1. \A q \in Rows, t \in Txs : Recorded(q, t)' => Recorded(q, t)
  BY DEF Recorded
<1>2. TxFinalizesOne'
  BY <1>1 DEF LockInv, TxFinalizesOne
<1>3. Alone' /\ SeenOpen'
  BY DEF LockInv, Alone, SeenOpen
<1>4. Unused'
  BY DEF LockInv, Unused, Recorded
<1>5. QED BY <1>2, <1>3, <1>4 DEF LockInv

LEMMA MarkLockStep ==
  ASSUME TypeOK, LockInv, NEW m \in Marks, MarkLock(m)
  PROVE  LockInv'
<1> DEFINE r == mark[m].row
           t == mark[m].tx
<1>0. mark \in [Marks -> MarkLocals] /\ mark[m] \in MarkLocals
  BY DEF TypeOK, MarkOK
<1>1. CASE mark' = [mark EXCEPT ![m] = IdleMark]
  <2>1. \A n \in Marks : Holds(n)' => Holds(n) /\ mark'[n] = mark[n]
    BY <1>0, <1>1 DEF Holds, IdleMark
  <2>2. QED BY <2>1, LockKept DEF MarkLock
<1>2. CASE /\ MayMark(r) /\ ~ \E q \in Rows \ {r} : Recorded(q, t)
           /\ mark' = [mark EXCEPT ![m].phase = "update", ![m].seen = requests[r].status]
  <2>1. /\ mark'[m].phase = "update" /\ mark'[m].tx = t /\ mark'[m].row = r
        /\ mark'[m].seen = requests[r].status
        /\ \A n \in Marks \ {m} : mark'[n] = mark[n]
    BY <1>0, <1>2 DEF MarkLocals
  <2>2. UNCHANGED requests /\ ~ Locked(t)
    BY DEF MarkLock
  <2>3. Alone'
    BY <2>1, <2>2 DEF LockInv, Alone, Holds, Locked
  <2>4. SeenOpen'
    BY <1>2, <2>1 DEF LockInv, SeenOpen, Holds, MayMark
  <2>5. Unused'
    <3>1. \A q \in Rows, u \in Txs \cup {t} : Recorded(q, u)' <=> Recorded(q, u)
      BY <2>2 DEF Recorded
    <3>2. \A q \in Rows \ {r} : ~ Recorded(q, t)
      BY <1>2
    <3>3. ASSUME NEW n \in Marks, Holds(n)', NEW q \in Rows \ {mark'[n].row}
          PROVE  ~ Recorded(q, mark[n].tx)'
      <4>1. CASE n = m
        BY <2>1, <2>2, <3>2, <3>3, <4>1 DEF Recorded
      <4>2. CASE n # m
        <5>1. mark'[n] = mark[n] /\ Holds(n)
          BY <2>1, <3>3, <4>2 DEF Holds
        <5>2. ~ Recorded(q, mark[n].tx)
          BY <5>1, <3>3 DEF LockInv, Unused
        <5>3. QED BY <5>1, <5>2, <2>2 DEF Recorded
      <4>3. QED BY <4>1, <4>2
    <3>4. QED BY <3>3 DEF Unused
  <2>6. TxFinalizesOne'
    BY <2>2 DEF LockInv, TxFinalizesOne, Recorded
  <2>7. QED BY <2>3, <2>4, <2>5, <2>6 DEF LockInv
<1>3. QED BY <1>1, <1>2 DEF MarkLock

LEMMA MarkUpdateStep ==
  ASSUME TypeOK, LockInv, NEW m \in Marks, MarkUpdate(m)
  PROVE  LockInv'
<1> DEFINE r == mark[m].row
           t == mark[m].tx
<1>0. mark \in [Marks -> MarkLocals] /\ r \in Rows /\ t \in Txs /\ Holds(m)
  BY DEF TypeOK, MarkOK, MarkUpdate, Holds
<1>1. /\ ~ Holds(m)'
      /\ \A n \in Marks \ {m} : mark'[n] = mark[n]
  BY <1>0 DEF MarkUpdate, Holds, IdleMark
<1>2. CASE ~ StillSeen(m)
  <2>1. UNCHANGED requests
    BY <1>2 DEF MarkUpdate
  <2>2. \A n \in Marks : Holds(n)' => Holds(n) /\ mark'[n] = mark[n]
    BY <1>1 DEF Holds
  <2>3. QED BY <2>1, <2>2, LockKept
<1>3. CASE StillSeen(m)
  <2>1. requests \in [Rows -> Row] /\ requests[r] \in Row
    BY <1>0 DEF TypeOK, RowsOK
  <2>2. /\ requests'[r].status = "minted" /\ requests'[r].tx = t
        /\ \A q \in Rows \ {r} : requests'[q] = requests[q]
    BY <1>0, <1>3, <2>1 DEF MarkUpdate, Row
  <2>3. \A q \in Rows, u \in Txs : Recorded(q, u)' => Recorded(q, u) \/ (q = r /\ u = t)
    BY <2>2 DEF Recorded
  <2>4. \A q \in Rows \ {r} : ~ Recorded(q, t)
    BY <1>0 DEF LockInv, Unused
  <2>5. TxFinalizesOne'
    BY <2>3, <2>4 DEF LockInv, TxFinalizesOne
  <2>6. Alone' /\ SeenOpen'
    BY <1>1 DEF LockInv, Alone, SeenOpen, Holds
  <2>7. ASSUME NEW n \in Marks, Holds(n)', NEW q \in Rows \ {mark'[n].row}
        PROVE  ~ Recorded(q, mark[n].tx)'
    <3>1. n # m /\ mark'[n] = mark[n] /\ Holds(n)
      BY <1>1, <2>7 DEF Holds
    <3>2. mark[n].tx # t
      BY <1>0, <3>1 DEF LockInv, Alone
    <3>3. mark[n].tx \in Txs
      BY <3>1 DEF TypeOK, MarkOK, Holds
    <3>4. ~ Recorded(q, mark[n].tx)
      BY <3>1, <2>7 DEF LockInv, Unused
    <3>5. ~ (requests'[q].status = "minted" /\ requests'[q].tx = mark[n].tx)
      BY <2>2, <3>2, <3>4 DEF Recorded
    <3>6. QED BY <3>1, <3>5 DEF Recorded
  <2>8. Unused'
    BY <2>7 DEF Unused
  <2>9. QED BY <2>5, <2>6, <2>8 DEF LockInv
<1>4. QED BY <1>2, <1>3

LEMMA StepLock == TypeOK /\ LockInv /\ [Next]_vars => LockInv'
<1> SUFFICES ASSUME TypeOK, LockInv, [Next]_vars PROVE LockInv'
  OBVIOUS
<1>1. ASSUME UNCHANGED <<requests, mark>> PROVE LockInv'
  BY <1>1, LockKept DEF Holds
<1>2. ASSUME NEW m \in Marks, MarkStep(m) PROVE LockInv'
  <2>0. mark \in [Marks -> MarkLocals]
    BY DEF TypeOK, MarkOK
  <2>1. ASSUME UNCHANGED requests, NEW x \in {IdleMark, [mark[m] EXCEPT !.phase = "lock"]},
               mark' = [mark EXCEPT ![m] = x]
        PROVE  LockInv'
    <3>1. x.phase # "update"
      BY <2>0 DEF IdleMark, MarkLocals
    <3>2. \A n \in Marks : Holds(n)' => Holds(n) /\ mark'[n] = mark[n]
      BY <2>0, <2>1, <3>1 DEF Holds
    <3>3. QED BY <2>1, <3>2, LockKept
  <2>2. CASE MarkVerify(m)
    BY <2>0, <2>1, <2>2 DEF MarkVerify
  <2>3. ASSUME NEW r \in Rows, NEW t \in Txs, MarkRead(m, r, t) PROVE LockInv'
    <3>1. \A n \in Marks : Holds(n)' => Holds(n) /\ mark'[n] = mark[n]
      BY <2>0, <2>3 DEF MarkRead, Holds
    <3>2. QED BY <2>3, <3>1, LockKept DEF MarkRead
  <2>4. QED BY <1>2, <2>2, <2>3, MarkLockStep, MarkUpdateStep DEF MarkStep
<1>3. CASE Crash
  <2>1. \A n \in Marks : ~ Holds(n)'
    BY <1>3 DEF Crash, Holds, IdleMark
  <2>2. QED BY <1>3, <2>1, LockKept DEF Crash
<1>4. CASE \/ \E s \in Submits : SubmitStep(s)
           \/ \E c \in Clicks : ClickStep(c)
  <2>1. /\ \A q \in Rows : requests'[q].status = "minted" => requests'[q] = requests[q]
        /\ UNCHANGED mark
    BY <1>4, MintedBefore
  <2>2. QED BY <2>1, LockKept DEF Holds
<1>5. QED BY <1>1, <1>2, <1>3, <1>4 DEF Next, Expire, vars, handlers

(***************************************************************************)
(* One mint, one request: no hash is recorded for two requests, however    *)
(* many handlers report it at once (the transaction of mark-minted).       *)
(***************************************************************************)
THEOREM OneRequestPerMint == Spec => []TxFinalizesOne
<1>1. LockInv => TxFinalizesOne
  BY DEF LockInv
<1>2. QED BY <1>1, InitType, StepType, InitLock, StepLock, PTL DEF Spec

(***************************************************************************)
(* Only what is approved at that moment becomes minted: the update is      *)
(* conditional on the second reading, which saw it approved.               *)
(***************************************************************************)
THEOREM MintedFromApproved == Spec => OnlyApprovedIsMinted
<1> DEFINE Allowed(r) == requests'[r].status = "minted" /\ requests[r].status # "minted"
                            => requests[r].status = "approved"
<1>1. TypeOK /\ LockInv /\ [Next]_vars => [\A r \in Rows : Allowed(r)]_vars
  <2> SUFFICES ASSUME TypeOK, LockInv, Next, NEW r \in Rows PROVE Allowed(r)
    BY DEF Allowed
  <2>1. CASE \/ \E s \in Submits : SubmitStep(s)
             \/ \E c \in Clicks : ClickStep(c)
    BY <2>1, MintedBefore
  <2>2. CASE UNCHANGED requests
    BY <2>2
  <2>3. ASSUME NEW m \in Marks, MarkUpdate(m) PROVE Allowed(r)
    <3>1. mark[m].row \in Rows /\ mark[m].seen \in {"approved", "minted"}
      BY <2>3 DEF TypeOK, MarkOK, LockInv, SeenOpen, Holds, MarkUpdate
    <3>2. CASE StillSeen(m)
      <4>1. requests \in [Rows -> Row] /\ requests[mark[m].row] \in Row
        BY <3>1 DEF TypeOK, RowsOK
      <4>2. \A q \in Rows \ {mark[m].row} : requests'[q] = requests[q]
        BY <2>3, <3>1, <3>2, <4>1 DEF MarkUpdate, Row
      <4>3. requests[mark[m].row].status \in {"approved", "minted"}
        BY <3>1, <3>2 DEF StillSeen
      <4>4. QED BY <4>2, <4>3
    <3>3. CASE ~ StillSeen(m)
      BY <2>3, <3>3 DEF MarkUpdate
    <3>4. QED BY <3>2, <3>3
  <2>4. QED BY <2>1, <2>2, <2>3 DEF Next, MarkStep, MarkRead, MarkVerify, MarkLock, Expire, Crash
<1>2. QED BY <1>1, InitType, StepType, InitLock, StepLock, PTL DEF Spec, OnlyApprovedIsMinted, Allowed

(***************************************************************************)
(* The life of a request.  A submission under way has a row that was       *)
(* written, or none yet, and so no step ever takes a row back to nothing:  *)
(* each moves along one of these.                                          *)
(***************************************************************************)
InHand == \A s \in Submits :
  /\ submit[s].phase \in {"link", "mail", "undo"} => requests[submit[s].row].status # "none"
  /\ submit[s].phase \in {"idle", "create"} => submit[s].row = 0

Moves(q) ==
  \/ requests'[q] = requests[q]
  \/ requests[q].status = "none" /\ requests'[q].status = "pending"
  \/ requests[q].status # "none" /\ requests'[q].status = "deleted"
  \/ /\ Exists(q) /\ requests'[q].status \in {"approved", "rejected"}
     /\ requests'[q].config = requests[q].config
  \/ /\ requests[q].status \in {"approved", "minted"} /\ requests'[q].status = "minted"
     /\ requests'[q].config = requests[q].config

LEMMA SubmitMoves ==
  ASSUME TypeOK, InHand, NEW s \in Submits, SubmitStep(s)
  PROVE  UNCHANGED <<mark, crashes>> /\ \A q \in Rows : Moves(q)
<1> USE DEF TypeOK, RowsOK
<1>1. CASE SubmitCreate(s)
  <2>1. PICK r \in Rows :
          /\ requests[r].status = "none"
          /\ requests' = [requests EXCEPT ![r] =
               [status |-> "pending", tx |-> Nothing,
                user |-> submit[s].user, config |-> submit[s].config]]
    BY <1>1 DEF SubmitCreate
  <2>2. requests'[r].status = "pending" /\ \A q \in Rows \ {r} : requests'[q] = requests[q]
    BY <2>1
  <2>3. QED BY <1>1, <2>1, <2>2 DEF SubmitCreate, Moves
<1>2. CASE SubmitUndo(s)
  <2>1. submit[s].row \in Rows /\ requests[submit[s].row].status # "none"
    BY <1>2 DEF SubmitUndo, SubmitOK, InHand
  <2>2. /\ requests'[submit[s].row].status = "deleted"
        /\ \A q \in Rows \ {submit[s].row} : requests'[q] = requests[q]
    BY <1>2, <2>1 DEF SubmitUndo, NoRow
  <2>3. QED BY <1>2, <2>1, <2>2 DEF SubmitUndo, Moves
<1>3. CASE UNCHANGED <<requests, mark, crashes>>
  BY <1>3 DEF Moves
<1>4. QED BY <1>1, <1>2, <1>3 DEF SubmitStep, SubmitLookup, SubmitLink, SubmitMail, SubmitFail

LEMMA ClickMoves ==
  ASSUME TypeOK, NEW c \in Clicks, ClickStep(c)
  PROVE  UNCHANGED <<mark, submit, crashes>> /\ \A q \in Rows : Moves(q)
<1> USE DEF TypeOK, RowsOK
<1>1. CASE ClickApply(c)
  <2> DEFINE r == click[c].row
  <2>1. r \in Rows
    BY <1>1 DEF ClickApply, ClickOK
  <2>2. CASE Exists(r)
    <3>1. requests[r] \in Row /\ requests \in [Rows -> Row]
      BY <2>1
    <3>2. /\ requests'[r].status = Decision(click[c].action)
          /\ requests'[r].config = requests[r].config
          /\ \A q \in Rows \ {r} : requests'[q] = requests[q]
      BY <1>1, <2>1, <2>2, <3>1 DEF ClickApply, Row
    <3>3. Moves(r)
      BY <2>2, <3>2 DEF Decision, Moves
    <3>4. QED BY <1>1, <3>2, <3>3 DEF ClickApply, Moves
  <2>3. CASE ~ Exists(r)
    BY <1>1, <2>3 DEF ClickApply, Moves
  <2>4. QED BY <2>2, <2>3
<1>2. CASE \E r \in Rows, a \in Actions : ClickCheck(c, r, a)
  BY <1>2 DEF ClickCheck, Moves
<1>3. QED BY <1>1, <1>2 DEF ClickStep

\* The one step of a report that writes to a request: it finalizes the one it
\* saw open, by its own hash.
LEMMA UpdateMoves ==
  ASSUME TypeOK, LockInv, NEW m \in Marks, MarkUpdate(m)
  PROVE  /\ mark[m].row \in Rows /\ mark'[m] = IdleMark
         /\ \A n \in Marks \ {m} : mark'[n] = mark[n]
         /\ \A q \in Rows : Moves(q)
         /\ \A q \in Rows : \/ requests'[q] = requests[q]
                            \/ /\ q = mark[m].row /\ StillSeen(m)
                               /\ requests'[q].status = "minted" /\ requests'[q].tx = mark[m].tx
                               /\ requests'[q].config = requests[q].config
<1>1. /\ mark[m].row \in Rows /\ mark[m].seen \in {"approved", "minted"}
      /\ mark \in [Marks -> MarkLocals]
  BY DEF TypeOK, MarkOK, LockInv, SeenOpen, Holds, MarkUpdate
<1>2. mark'[m] = IdleMark /\ \A n \in Marks \ {m} : mark'[n] = mark[n]
  BY <1>1 DEF MarkUpdate
<1>3. CASE StillSeen(m)
  <2>1. requests \in [Rows -> Row] /\ requests[mark[m].row] \in Row
    BY <1>1 DEF TypeOK, RowsOK
  <2>2. /\ requests'[mark[m].row].status = "minted"
        /\ requests'[mark[m].row].tx = mark[m].tx
        /\ requests'[mark[m].row].config = requests[mark[m].row].config
        /\ \A q \in Rows \ {mark[m].row} : requests'[q] = requests[q]
    BY <1>1, <1>3, <2>1 DEF MarkUpdate, Row
  <2>3. requests[mark[m].row].status \in {"approved", "minted"}
    BY <1>1, <1>3 DEF StillSeen
  <2>4. QED BY <1>1, <1>2, <1>3, <2>2, <2>3 DEF Moves
<1>4. CASE ~ StillSeen(m)
  BY <1>1, <1>2, <1>4 DEF MarkUpdate, Moves
<1>5. QED BY <1>3, <1>4

LEMMA StepMoves == TypeOK /\ LockInv /\ InHand /\ [Next]_vars => \A q \in Rows : Moves(q)
<1> SUFFICES ASSUME TypeOK, LockInv, InHand, [Next]_vars PROVE \A q \in Rows : Moves(q)
  OBVIOUS
<1>1. CASE UNCHANGED requests
  BY <1>1 DEF Moves
<1>2. QED BY <1>1, SubmitMoves, ClickMoves, UpdateMoves
          DEF Next, MarkStep, MarkRead, MarkVerify, MarkLock, Expire, Crash, vars

LEMMA InitInHand == Init => InHand
BY DEF Init, InHand, IdleSubmit

LEMMA StepInHand == TypeOK /\ LockInv /\ InHand /\ [Next]_vars => InHand'
<1> SUFFICES ASSUME TypeOK, LockInv, InHand, [Next]_vars PROVE InHand'
  OBVIOUS
<1>0. /\ submit \in [Submits -> SubmitLocals]
      /\ \A s \in Submits : submit[s].phase \in {"link", "mail", "undo"} => submit[s].row \in Rows
  BY DEF TypeOK, SubmitOK
<1>1. \A q \in Rows : requests[q].status # "none" => requests'[q].status # "none"
  BY StepMoves DEF Moves
<1>2. CASE UNCHANGED submit
  BY <1>0, <1>1, <1>2 DEF InHand
<1>3. CASE Crash
  BY <1>3 DEF Crash, InHand, IdleSubmit
<1>4. ASSUME NEW s \in Submits, SubmitStep(s) PROVE InHand'
  <2>1. \A z \in Submits \ {s} : submit'[z] = submit[z]
    BY <1>0, <1>4 DEF SubmitStep, SubmitLookup, SubmitCreate, SubmitLink, SubmitMail, SubmitUndo, SubmitFail
  <2>2. \/ submit'[s].phase \in {"idle", "create"} /\ submit'[s].row = 0
        \/ /\ submit'[s].phase \in {"link", "mail", "undo"} /\ submit'[s].row \in Rows
           /\ requests'[submit'[s].row].status # "none"
    <3>1. CASE SubmitCreate(s)
      <4>1. PICK r \in Rows : /\ requests[r].status = "none"
                              /\ requests' = [requests EXCEPT ![r] = [status |-> "pending", tx |-> Nothing,
                                      user |-> submit[s].user, config |-> submit[s].config]]
                              /\ submit' = [submit EXCEPT ![s].phase = "link", ![s].row = r]
        BY <3>1 DEF SubmitCreate
      <4>2. submit'[s].phase = "link" /\ submit'[s].row = r
        BY <1>0, <4>1 DEF SubmitLocals
      <4>3. requests'[r].status = "pending"
        BY <4>1 DEF TypeOK, RowsOK
      <4>4. QED BY <4>2, <4>3
    <3>2. CASE \E u \in Users, g \in Configs : SubmitLookup(s, u, g)
      BY <3>2, <1>0 DEF SubmitLookup
    <3>0. CASE SubmitFail(s)
      BY <3>0, <1>0 DEF SubmitFail, IdleSubmit
    <3>3. CASE SubmitUndo(s) \/ SubmitMail(s) \/ SubmitLink(s)
      <4>1. /\ submit[s].phase \in {"link", "mail", "undo"} /\ submit[s].row \in Rows
            /\ requests[submit[s].row].status # "none"
        BY <3>3, <1>0 DEF SubmitUndo, SubmitMail, SubmitLink, InHand
      <4>2. \/ submit'[s] = IdleSubmit
            \/ submit'[s].phase \in {"mail", "undo"} /\ submit'[s].row = submit[s].row
        BY <3>3, <1>0 DEF SubmitUndo, SubmitMail, SubmitLink, SubmitLocals
      <4>3. QED BY <1>1, <4>1, <4>2 DEF IdleSubmit
    <3>4. QED BY <1>4, <3>0, <3>1, <3>2, <3>3 DEF SubmitStep
  <2>3. QED BY <1>0, <1>1, <2>1, <2>2 DEF InHand
<1>5. QED BY <1>2, <1>3, <1>4
          DEF Next, ClickStep, ClickCheck, ClickApply, MarkStep, MarkRead, MarkVerify, MarkLock,
              MarkUpdate, Expire, vars, handlers

(***************************************************************************)
(* What was verified stays so.  A report under way is about a request that *)
(* was submitted, so nothing gives it another token behind its back, and   *)
(* beyond the chain's answer the hash minted the request's own token,      *)
(* unless the request is gone.                                             *)
(***************************************************************************)
Begun    == \A m \in Marks : mark[m].phase # "idle" => requests[mark[m].row].status # "none"
Verified == \A m \in Marks : mark[m].phase \in {"lock", "update"} =>
              \/ requests[mark[m].row].status = "deleted"
              \/ MintOf[mark[m].tx] = requests[mark[m].row].config

VerifiedInv == Begun /\ Verified /\ MintIsVerified

LEMMA InitVerified == Init => VerifiedInv
BY DEF Init, VerifiedInv, Begun, Verified, MintIsVerified, IdleMark, NoRow

\* Reports that do not move, or stop, keep what was established about them.
LEMMA ReportsKept ==
  ASSUME TypeOK, VerifiedInv, \A q \in Rows : Moves(q),
         NEW m \in Marks, mark'[m] = mark[m] \/ mark'[m] = IdleMark
  PROVE  /\ mark'[m].phase # "idle" => requests'[mark'[m].row].status # "none"
         /\ mark'[m].phase \in {"lock", "update"} =>
              \/ requests'[mark'[m].row].status = "deleted"
              \/ MintOf[mark'[m].tx] = requests'[mark'[m].row].config
<1>1. CASE mark'[m] = IdleMark
  BY <1>1 DEF IdleMark
<1>2. CASE mark'[m] = mark[m] /\ mark[m].phase # "idle"
  <2>1. mark[m].row \in Rows /\ requests[mark[m].row].status # "none"
    BY <1>2 DEF TypeOK, MarkOK, VerifiedInv, Begun
  <2>2. \/ requests'[mark[m].row] = requests[mark[m].row]
        \/ requests'[mark[m].row].status = "deleted"
        \/ /\ requests[mark[m].row].status # "deleted" /\ requests'[mark[m].row].status # "none"
           /\ requests'[mark[m].row].config = requests[mark[m].row].config
    BY <2>1 DEF Moves, Exists
  <2>3. mark[m].phase \in {"lock", "update"} =>
          \/ requests[mark[m].row].status = "deleted"
          \/ MintOf[mark[m].tx] = requests[mark[m].row].config
    BY DEF VerifiedInv, Verified
  <2>4. QED BY <1>2, <2>1, <2>2, <2>3
<1>3. QED BY <1>1, <1>2

LEMMA StepVerified == TypeOK /\ LockInv /\ InHand /\ VerifiedInv /\ [Next]_vars => VerifiedInv'
<1> SUFFICES ASSUME TypeOK, LockInv, InHand, VerifiedInv, [Next]_vars PROVE VerifiedInv'
  OBVIOUS
<1> DEFINE Good(m) ==
      /\ mark'[m].phase # "idle" => requests'[mark'[m].row].status # "none"
      /\ mark'[m].phase \in {"lock", "update"} =>
           \/ requests'[mark'[m].row].status = "deleted"
           \/ MintOf[mark'[m].tx] = requests'[mark'[m].row].config
<1>0. mark \in [Marks -> MarkLocals] /\ \A q \in Rows : Moves(q)
  BY StepMoves DEF TypeOK, MarkOK
<1>1. ASSUME NEW m \in Marks, mark'[m] = mark[m] \/ mark'[m] = IdleMark PROVE Good(m)
  BY <1>0, <1>1, ReportsKept
<1>2. ASSUME \A m \in Marks : Good(m) PROVE Begun' /\ Verified'
  BY <1>2 DEF Begun, Verified
<1>3. ASSUME \A q \in Rows : requests'[q].status = "minted" => requests'[q] = requests[q]
      PROVE  MintIsVerified'
  BY <1>3 DEF VerifiedInv, MintIsVerified
<1>4. CASE UNCHANGED <<requests, mark>>
  BY <1>1, <1>2, <1>3, <1>4 DEF VerifiedInv
<1>5. CASE \/ \E s \in Submits : SubmitStep(s)
           \/ \E c \in Clicks : ClickStep(c)
  BY <1>1, <1>2, <1>3, <1>5, MintedBefore DEF VerifiedInv
<1>6. CASE Crash
  BY <1>1, <1>2, <1>3, <1>6 DEF VerifiedInv, Crash
<1>7. ASSUME NEW m \in Marks, MarkStep(m) PROVE VerifiedInv'
  <2>1. ASSUME UNCHANGED requests, \A n \in Marks \ {m} : mark'[n] = mark[n], Good(m)
        PROVE  VerifiedInv'
    BY <1>1, <1>2, <1>3, <2>1 DEF VerifiedInv
  <2>2. ASSUME NEW r \in Rows, NEW t \in Txs, MarkRead(m, r, t) PROVE VerifiedInv'
    <3>1. /\ mark'[m].phase = "verify" /\ mark'[m].row = r
          /\ \A n \in Marks \ {m} : mark'[n] = mark[n]
          /\ UNCHANGED requests /\ MayMark(r)
      BY <1>0, <2>2 DEF MarkRead
    <3>2. QED BY <2>1, <3>1 DEF MayMark
  <2>3. CASE MarkVerify(m)
    <3>1. \A n \in Marks \ {m} : mark'[n] = mark[n]
      BY <1>0, <2>3 DEF MarkVerify
    <3>2. Good(m)
      <4>1. CASE mark' = [mark EXCEPT ![m].phase = "lock"] /\ Matches(mark[m].tx, mark[m].row)
        <5>1. mark'[m].row = mark[m].row /\ mark'[m].tx = mark[m].tx
          BY <1>0, <4>1 DEF MarkLocals
        <5>2. UNCHANGED requests /\ requests[mark[m].row].status # "none"
          BY <2>3 DEF MarkVerify, VerifiedInv, Begun
        <5>3. QED BY <4>1, <5>1, <5>2 DEF Matches
      <4>2. CASE mark' = [mark EXCEPT ![m] = IdleMark]
        BY <1>0, <1>1, <4>2
      <4>3. QED BY <2>3, <4>1, <4>2 DEF MarkVerify
    <3>3. QED BY <2>1, <2>3, <3>1, <3>2 DEF MarkVerify
  <2>4. CASE MarkLock(m)
    <3>1. \A n \in Marks \ {m} : mark'[n] = mark[n]
      BY <1>0, <2>4 DEF MarkLock
    <3>2. Good(m)
      <4>1. CASE mark' = [mark EXCEPT ![m].phase = "update", ![m].seen = requests[mark[m].row].status]
        <5>1. mark'[m].row = mark[m].row /\ mark'[m].tx = mark[m].tx
          BY <1>0, <4>1 DEF MarkLocals
        <5>2. /\ UNCHANGED requests /\ requests[mark[m].row].status # "none"
              /\ \/ requests[mark[m].row].status = "deleted"
                 \/ MintOf[mark[m].tx] = requests[mark[m].row].config
          BY <2>4 DEF MarkLock, VerifiedInv, Begun, Verified
        <5>3. QED BY <5>1, <5>2
      <4>2. CASE mark' = [mark EXCEPT ![m] = IdleMark]
        BY <1>0, <1>1, <4>2
      <4>3. QED BY <2>4, <4>1, <4>2 DEF MarkLock
    <3>3. QED BY <2>1, <2>4, <3>1, <3>2 DEF MarkLock
  <2>5. CASE MarkUpdate(m)
    <3>1. Begun' /\ Verified'
      BY <1>1, <1>2, <2>5, UpdateMoves
    <3>2. /\ mark[m].tx # Nothing
          /\ \/ requests[mark[m].row].status = "deleted"
             \/ MintOf[mark[m].tx] = requests[mark[m].row].config
      BY <2>5, MintAssumption DEF MarkUpdate, VerifiedInv, Verified, TypeOK, MarkOK
    <3>3. StillSeen(m) => requests[mark[m].row].status # "deleted"
      BY <2>5 DEF StillSeen, LockInv, SeenOpen, Holds, MarkUpdate
    <3>4. ASSUME NEW q \in Rows, requests'[q].status = "minted"
          PROVE  requests'[q].tx # Nothing /\ MintOf[requests'[q].tx] = requests'[q].config
      <4>1. CASE requests'[q] = requests[q]
        BY <3>4, <4>1 DEF VerifiedInv, MintIsVerified
      <4>2. CASE /\ q = mark[m].row /\ StillSeen(m)
                 /\ requests'[q].status = "minted" /\ requests'[q].tx = mark[m].tx
                 /\ requests'[q].config = requests[q].config
        BY <3>2, <3>3, <4>2
      <4>3. QED BY <2>5, <4>1, <4>2, UpdateMoves
    <3>5. QED BY <3>1, <3>4 DEF VerifiedInv, MintIsVerified
  <2>6. QED BY <1>7, <2>2, <2>3, <2>4, <2>5 DEF MarkStep
<1>8. QED BY <1>4, <1>5, <1>6, <1>7 DEF Next, Expire, vars, handlers

(***************************************************************************)
(* A minted request names the transaction that minted its own token,       *)
(* though the chain is asked while nothing is locked: what a request is    *)
(* for never changes, and the update writes the hash that was verified.    *)
(***************************************************************************)
THEOREM MintsAreVerified == Spec => []MintIsVerified
<1>1. VerifiedInv => MintIsVerified
  BY DEF VerifiedInv
<1>2. QED BY <1>1, InitType, StepType, InitLock, StepLock, InitInHand, StepInHand,
             InitVerified, StepVerified, PTL DEF Spec

(***************************************************************************)
(* Links in the banker's hands.  A request that is pending while its       *)
(* submission mails, or undoes, has fresh links; what the mail brings is   *)
(* what was written before it.                                             *)
(***************************************************************************)
Unspent(r) == \A a \in Actions : links[r][a] = "fresh"
Renewed(r) == \A a \in Actions : links'[r][a] = "fresh"

LinksFirst == \A s \in Submits :
  submit[s].phase \in {"mail", "undo"} /\ requests[submit[s].row].status = "pending"
    => Unspent(submit[s].row)

DecidableInv == LinksFirst /\ PendingIsDecidable

LEMMA InitDecidable == Init => DecidableInv
BY DEF Init, DecidableInv, LinksFirst, PendingIsDecidable, IdleSubmit, NoRow

\* A row that is pending was so before, or a submission has just created it;
\* and its links are as they were, or just written.
LEMMA LinksOfPending ==
  ASSUME TypeOK, LockInv, InHand, [Next]_vars,
         NEW r \in Rows, requests'[r].status = "pending"
  PROVE  /\ \/ requests[r].status = "pending"
            \/ requests[r].status = "none" /\ \E s \in Submits : submit'[s].row = r
         /\ links'[r] = links[r] \/ Renewed(r)
<1> USE DEF TypeOK, RowsOK
<1>1. requests[r].status \in {"none", "pending"}
  BY StepMoves DEF Moves
<1>2. CASE UNCHANGED <<requests, links>>
  BY <1>1, <1>2
<1>3. ASSUME NEW s \in Submits, SubmitCreate(s)
      PROVE  /\ \/ requests[r].status = "pending"
                \/ requests[r].status = "none" /\ \E z \in Submits : submit'[z].row = r
             /\ links'[r] = links[r]
  <2>0. submit \in [Submits -> SubmitLocals]
    BY DEF SubmitOK
  <2>1. PICK q \in Rows :
          /\ requests[q].status = "none"
          /\ requests' = [requests EXCEPT ![q] = [status |-> "pending", tx |-> Nothing,
                            user |-> submit[s].user, config |-> submit[s].config]]
          /\ submit' = [submit EXCEPT ![s].phase = "link", ![s].row = q]
    BY <1>3 DEF SubmitCreate
  <2>2. submit'[s].row = q
    BY <2>0, <2>1 DEF SubmitLocals
  <2>3. r # q => requests'[r] = requests[r]
    BY <2>1
  <2>4. QED BY <1>1, <1>3, <2>1, <2>2, <2>3 DEF SubmitCreate
<1>4. ASSUME NEW s \in Submits, SubmitUndo(s) \/ SubmitLink(s)
      PROVE  requests[r].status = "pending" /\ (links'[r] = links[r] \/ Renewed(r))
  <2>1. submit[s].row \in Rows
    BY <1>4 DEF SubmitOK, SubmitUndo, SubmitLink
  <2>2. CASE SubmitUndo(s)
    <3>1. requests'[submit[s].row].status = "deleted"
      BY <2>1, <2>2 DEF SubmitUndo, NoRow
    <3>2. r # submit[s].row
      BY <3>1
    <3>3. QED BY <2>1, <2>2, <3>2 DEF SubmitUndo
  <2>3. CASE SubmitLink(s)
    BY <2>1, <2>3 DEF SubmitLink, Unspent, Renewed
  <2>4. QED BY <1>4, <2>2, <2>3
<1>5. ASSUME NEW c \in Clicks, ClickApply(c)
      PROVE  requests[r].status = "pending" /\ links'[r] = links[r]
  <2>1. click[c].row \in Rows
    BY <1>5 DEF ClickOK, ClickApply
  <2>2. CASE Exists(click[c].row)
    <3>1. requests[click[c].row] \in Row /\ requests \in [Rows -> Row]
      BY <2>1
    <3>2. requests'[click[c].row].status = Decision(click[c].action)
      BY <1>5, <2>1, <2>2, <3>1 DEF ClickApply, Row
    <3>3. r # click[c].row
      BY <3>2 DEF Decision
    <3>4. requests'[r] = requests[r] /\ links'[r] = links[r]
      BY <1>5, <2>1, <2>2, <3>1, <3>3 DEF ClickApply, Row
    <3>5. QED BY <3>4
  <2>3. CASE ~ Exists(click[c].row)
    BY <1>5, <2>3 DEF ClickApply
  <2>4. QED BY <2>2, <2>3
<1>6. ASSUME NEW m \in Marks, MarkUpdate(m)
      PROVE  requests[r].status = "pending" /\ links'[r] = links[r]
  BY <1>6, UpdateMoves DEF MarkUpdate
<1>7. QED BY <1>2, <1>3, <1>4, <1>5, <1>6
          DEF Next, SubmitStep, SubmitLookup, SubmitMail, SubmitFail, ClickStep, ClickCheck,
              MarkStep, MarkRead, MarkVerify, MarkLock, Expire, Crash, vars, handlers

\* What was mailed stays mailed, and what broke off stays so.
LEMMA MailStays == TypeOK /\ [Next]_vars => mailed \subseteq mailed' /\ broken \subseteq broken'
<1> SUFFICES ASSUME TypeOK, [Next]_vars
             PROVE  mailed \subseteq mailed' /\ broken \subseteq broken'
  OBVIOUS
<1>1. ASSUME NEW s \in Submits, SubmitStep(s) PROVE mailed \subseteq mailed' /\ broken \subseteq broken'
  BY <1>1 DEF SubmitStep, SubmitLookup, SubmitCreate, SubmitLink, SubmitMail, SubmitUndo, SubmitFail
<1>2. CASE Crash
  BY <1>2 DEF Crash, TypeOK, RowsOK
<1>3. CASE UNCHANGED <<mailed, crashes, broken>>
  BY <1>3
<1>4. QED BY <1>1, <1>2, <1>3
          DEF Next, ClickStep, ClickCheck, ClickApply, MarkStep, MarkRead, MarkVerify, MarkLock,
              MarkUpdate, Expire, vars, handlers

\* A submission that goes on keeps its row, and one that lets go of it has
\* mailed it, or undone it, or broke off.
LEMMA RowsInHand ==
  ASSUME TypeOK, InHand, [Next]_vars, NEW s \in Submits
  PROVE  /\ submit'[s].phase \in {"mail", "undo"} =>
              \/ submit[s].phase \in {"mail", "undo"} /\ submit'[s].row = submit[s].row
              \/ submit[s].phase = "link" /\ submit'[s].row = submit[s].row /\ Renewed(submit[s].row)
         /\ submit[s].row \in Rows =>
              \/ submit'[s].row = submit[s].row
              \/ submit[s].row \in broken'
              \/ requests'[submit[s].row].status = "deleted"
              \/ submit[s].phase = "mail" /\ submit[s].row \in mailed'
<1>0. /\ submit \in [Submits -> SubmitLocals] /\ crashes \in Nat
      /\ \A z \in Submits : /\ submit[z].phase \in {"link", "mail", "undo"} => submit[z].row \in Rows
                            /\ submit[z].phase \in {"idle", "create"} => submit[z].row = 0
      /\ 0 \notin Rows
  BY DEF TypeOK, SubmitOK, RowsOK, InHand, Rows
<1>1. CASE UNCHANGED submit
  BY <1>1
<1>2. CASE Crash
  BY <1>0, <1>2 DEF Crash, IdleSubmit
<1>3. ASSUME NEW z \in Submits, SubmitStep(z)
      PROVE  /\ submit'[s].phase \in {"mail", "undo"} =>
                  \/ submit[s].phase \in {"mail", "undo"} /\ submit'[s].row = submit[s].row
                  \/ submit[s].phase = "link" /\ submit'[s].row = submit[s].row /\ Renewed(submit[s].row)
             /\ submit[s].row \in Rows =>
                  \/ submit'[s].row = submit[s].row
                  \/ submit[s].row \in broken'
                  \/ requests'[submit[s].row].status = "deleted"
                  \/ submit[s].phase = "mail" /\ submit[s].row \in mailed'
  <2>1. \A y \in Submits \ {z} : submit'[y] = submit[y]
    BY <1>0, <1>3 DEF SubmitStep, SubmitLookup, SubmitCreate, SubmitLink, SubmitMail, SubmitUndo, SubmitFail
  <2>3. CASE z # s
    BY <2>1, <2>3
  <2>4. CASE z = s /\ (SubmitCreate(s) \/ \E u \in Users, g \in Configs : SubmitLookup(s, u, g))
    <3>1. submit[s].row \notin Rows /\ submit'[s].phase \notin {"mail", "undo"}
      BY <1>0, <2>4 DEF SubmitCreate, SubmitLookup, SubmitLocals
    <3>2. QED BY <3>1
  <2>5. CASE z = s /\ SubmitLink(s)
    <3>1. submit'[s].phase = "mail" /\ submit'[s].row = submit[s].row /\ submit[s].phase = "link"
      BY <1>0, <2>5 DEF SubmitLink, SubmitLocals
    <3>2. submit[s].row \in Rows /\ Renewed(submit[s].row)
      BY <1>0, <2>5 DEF SubmitLink, TypeOK, RowsOK, Unspent, Renewed
    <3>3. QED BY <3>1, <3>2
  <2>6. CASE z = s /\ SubmitMail(s)
    <3>1. submit[s].phase = "mail" /\ submit[s].row \in Rows
      BY <1>0, <2>6 DEF SubmitMail
    <3>2. \/ submit'[s] = IdleSubmit /\ submit[s].row \in mailed'
          \/ submit'[s].phase = "undo" /\ submit'[s].row = submit[s].row
      BY <1>0, <2>6 DEF SubmitMail, SubmitLocals
    <3>3. QED BY <3>1, <3>2 DEF IdleSubmit
  <2>7. CASE z = s /\ SubmitUndo(s)
    <3>1. submit'[s] = IdleSubmit /\ submit[s].row \in Rows
      BY <1>0, <2>7 DEF SubmitUndo
    <3>2. requests'[submit[s].row].status = "deleted"
      BY <2>7, <3>1 DEF SubmitUndo, TypeOK, RowsOK, NoRow
    <3>3. QED BY <3>1, <3>2 DEF IdleSubmit
  <2>8. CASE z = s /\ SubmitFail(s)
    <3>1. submit'[s] = IdleSubmit /\ broken' = broken \cup ({submit[s].row} \cap Rows)
      BY <1>0, <2>8 DEF SubmitFail
    <3>2. QED BY <3>1 DEF IdleSubmit
  <2>9. QED BY <1>3, <2>3, <2>4, <2>5, <2>6, <2>7, <2>8 DEF SubmitStep
<1>4. QED BY <1>1, <1>2, <1>3
          DEF Next, ClickStep, ClickCheck, ClickApply, MarkStep, MarkRead, MarkVerify, MarkLock,
              MarkUpdate, Expire, vars, handlers

LEMMA StepDecidable ==
  TypeOK /\ LockInv /\ InHand /\ DecidableInv /\ [Next]_vars => DecidableInv'
<1> SUFFICES ASSUME TypeOK, LockInv, InHand, DecidableInv, [Next]_vars PROVE DecidableInv'
  OBVIOUS
<1>0. \A s \in Submits : submit[s].phase \in {"link", "mail", "undo"} =>
        submit[s].row \in Rows /\ requests[submit[s].row].status # "none"
  BY DEF TypeOK, SubmitOK, InHand
<1>1. LinksFirst'
  <2> SUFFICES ASSUME NEW s \in Submits, submit'[s].phase \in {"mail", "undo"},
                      requests'[submit'[s].row].status = "pending"
               PROVE  Renewed(submit'[s].row)
    BY DEF LinksFirst, Unspent, Renewed
  <2> DEFINE r == submit[s].row
  <2>1. \/ submit[s].phase \in {"mail", "undo"} /\ submit'[s].row = r
        \/ submit[s].phase = "link" /\ submit'[s].row = r /\ Renewed(r)
    BY RowsInHand
  <2>2. r \in Rows /\ requests[r].status = "pending" /\ (links'[r] = links[r] \/ Renewed(r))
    BY <1>0, <2>1, LinksOfPending
  <2>3. submit[s].phase \in {"mail", "undo"} => Unspent(r)
    BY <2>2 DEF DecidableInv, LinksFirst
  <2>4. Renewed(r)
    BY <2>1, <2>2, <2>3 DEF Unspent, Renewed
  <2>5. QED BY <2>1, <2>4
<1>2. PendingIsDecidable'
  <2> SUFFICES ASSUME NEW r \in Rows, requests'[r].status = "pending", r \notin broken',
                      \A s \in Submits : submit'[s].row # r
               PROVE  r \in mailed' /\ Renewed(r)
    BY DEF PendingIsDecidable, Unspent, Renewed
  <2>1. requests[r].status = "pending" /\ r \notin broken /\ (links'[r] = links[r] \/ Renewed(r))
    BY LinksOfPending, MailStays
  <2>2. r \in mailed' /\ (Unspent(r) \/ Renewed(r))
    <3>1. CASE \A s \in Submits : submit[s].row # r
      BY <2>1, <3>1, MailStays DEF DecidableInv, PendingIsDecidable, Unspent
    <3>2. ASSUME NEW s \in Submits, submit[s].row = r
          PROVE  r \in mailed' /\ Unspent(r)
      <4>1. submit[s].phase = "mail" /\ r \in mailed'
        BY <3>2, RowsInHand
      <4>2. QED BY <2>1, <3>2, <4>1 DEF DecidableInv, LinksFirst
    <3>3. QED BY <3>1, <3>2
  <2>3. QED BY <2>1, <2>2 DEF Unspent, Renewed
<1>3. QED BY <1>1, <1>2 DEF DecidableInv

(***************************************************************************)
(* Nobody waits for a decision that cannot be taken: unless the submission *)
(* of a pending request broke off, by a statement that failed or by a      *)
(* restart, its links were mailed before the submission let go of it, and  *)
(* only a decision spends them.                                            *)
(***************************************************************************)
THEOREM PendingCanBeDecided == Spec => []PendingIsDecidable
<1>1. DecidableInv => PendingIsDecidable
  BY DEF DecidableInv
<1>2. QED BY <1>1, InitType, StepType, InitLock, StepLock, InitInHand, StepInHand,
             InitDecidable, StepDecidable, PTL DEF Spec

(***************************************************************************)
(* The handlers implement the abstract approval.  StatusMap and TakenMap   *)
(* are what the abstract variables stand for; the first lemma says what    *)
(* the abstract actions are in terms of them.                              *)
(***************************************************************************)
StatusOf(r) == CASE requests[r].status = "minted"  -> "executed"
                 [] requests[r].status = "deleted" -> "withdrawn"
                 [] OTHER -> requests[r].status
TakenOf(r) == {Decision(click[c].action) :
                 c \in {k \in Clicks : click[k].phase = "apply" /\ click[k].row = r}}

StatusMap == [r \in Rows |-> StatusOf(r)]
TakenMap  == [r \in Rows |-> TakenOf(r)]

LEMMA AskedInit ==
  (StatusMap = [r \in Rows |-> "none"] /\ TakenMap = [r \in Rows |-> {}]) => Asked!Init
BY DEF Asked!Init, StatusMap, TakenMap, StatusOf, TakenOf

LEMMA AskedStutter == StatusMap' = StatusMap /\ TakenMap' = TakenMap => UNCHANGED Asked!vars
BY DEF Asked!vars, StatusMap, TakenMap, StatusOf, TakenOf

LEMMA AskedAsk ==
  ASSUME NEW r \in Rows, StatusMap[r] = "none",
         StatusMap' = [StatusMap EXCEPT ![r] = "pending"], TakenMap' = TakenMap
  PROVE  Asked!Next
<1>1. Asked!Ask(r)
  BY DEF Asked!Ask, StatusMap, TakenMap, StatusOf, TakenOf
<1>2. QED BY <1>1 DEF Asked!Next

LEMMA AskedTake ==
  ASSUME NEW r \in Rows, NEW d \in {"approved", "rejected"}, StatusMap[r] = "pending",
         TakenMap' = [TakenMap EXCEPT ![r] = @ \cup {d}], StatusMap' = StatusMap
  PROVE  Asked!Next
<1>1. Asked!Take(r, d)
  BY DEF Asked!Take, StatusMap, TakenMap, StatusOf, TakenOf
<1>2. QED BY <1>1 DEF Asked!Next, Asked!Decisions

LEMMA AskedSettle ==
  ASSUME NEW r \in Rows, NEW d \in {"approved", "rejected"},
         StatusMap[r] \notin {"none", "withdrawn"}, d \in TakenMap[r],
         StatusMap' = [StatusMap EXCEPT ![r] = d],
         TakenMap' = TakenMap \/ TakenMap' = [TakenMap EXCEPT ![r] = @ \ {d}]
  PROVE  Asked!Next
<1>1. Asked!Settle(r, d)
  BY DEF Asked!Settle, Asked!Open, StatusMap, TakenMap, StatusOf, TakenOf
<1>2. QED BY <1>1 DEF Asked!Next, Asked!Decisions

LEMMA AskedForget ==
  ASSUME TakenMap' \in [Rows -> SUBSET {"approved", "rejected"}],
         \A r \in Rows : TakenMap'[r] \subseteq TakenMap[r],
         StatusMap' = StatusMap
  PROVE  Asked!Next
<1>1. Asked!Forget
  BY DEF Asked!Forget, Asked!Decisions, StatusMap, TakenMap, StatusOf, TakenOf
<1>2. QED BY <1>1 DEF Asked!Next

LEMMA AskedExecute ==
  ASSUME NEW r \in Rows, StatusMap[r] = "approved",
         StatusMap' = [StatusMap EXCEPT ![r] = "executed"], TakenMap' = TakenMap
  PROVE  Asked!Next
<1>1. Asked!Execute(r)
  BY DEF Asked!Execute, StatusMap, TakenMap, StatusOf, TakenOf
<1>2. QED BY <1>1 DEF Asked!Next

LEMMA AskedWithdraw ==
  ASSUME NEW r \in Rows, StatusMap[r] \notin {"none", "withdrawn"},
         StatusMap' = [StatusMap EXCEPT ![r] = "withdrawn"], TakenMap' = TakenMap
  PROVE  Asked!Next
<1>1. Asked!Withdraw(r)
  BY DEF Asked!Withdraw, Asked!Open, StatusMap, TakenMap, StatusOf, TakenOf
<1>2. QED BY <1>1 DEF Asked!Next

LEMMA MapsKept ==
  /\ (\A q \in Rows : requests'[q].status = requests[q].status) => StatusMap' = StatusMap
  /\ UNCHANGED click => TakenMap' = TakenMap
BY DEF StatusMap, TakenMap, StatusOf, TakenOf

\* One request's status changes.
LEMMA StatusSet ==
  ASSUME NEW r \in Rows, NEW x,
         x = StatusOf(r)',
         \A q \in Rows \ {r} : requests'[q] = requests[q]
  PROVE  StatusMap' = [StatusMap EXCEPT ![r] = x]
BY DEF StatusMap, StatusOf

\* A click that begins takes its decision along.
LEMMA TakenAdd ==
  ASSUME ClickOK, NEW c \in Clicks, NEW r \in Rows, NEW a \in Actions,
         click[c].phase = "idle",
         click' = [click EXCEPT ![c] = [phase |-> "apply", row |-> r, action |-> a]]
  PROVE  TakenMap' = [TakenMap EXCEPT ![r] = @ \cup {Decision(a)}]
<1>0. click \in [Clicks -> ClickLocals]
  BY DEF ClickOK
<1>1. /\ click'[c].phase = "apply" /\ click'[c].row = r /\ click'[c].action = a
      /\ \A k \in Clicks \ {c} : click'[k] = click[k]
  BY <1>0
<1>2. ASSUME NEW q \in Rows, q # r PROVE TakenOf(q)' = TakenOf(q)
  <2>1. \A k \in Clicks : (click'[k].phase = "apply" /\ click'[k].row = q)
                            <=> (click[k].phase = "apply" /\ click[k].row = q)
    BY <1>1, <1>2
  <2>2. \A k \in Clicks : click[k].phase = "apply" /\ click[k].row = q => click'[k] = click[k]
    BY <1>1
  <2>3. QED BY <2>1, <2>2 DEF TakenOf
<1>3. TakenOf(r)' = TakenOf(r) \cup {Decision(a)}
  <2>1. \A x : x \in TakenOf(r)' => x \in TakenOf(r) \cup {Decision(a)}
    BY <1>1 DEF TakenOf
  <2>2. \A x : x \in TakenOf(r) => x \in TakenOf(r)'
    <3> SUFFICES ASSUME NEW x \in TakenOf(r) PROVE x \in TakenOf(r)'
      OBVIOUS
    <3>1. PICK k \in Clicks : /\ click[k].phase = "apply" /\ click[k].row = r
                              /\ x = Decision(click[k].action)
      BY DEF TakenOf
    <3>2. click'[k] = click[k]
      BY <1>1, <3>1
    <3>3. QED BY <3>1, <3>2 DEF TakenOf
  <2>3. Decision(a) \in TakenOf(r)'
    BY <1>1 DEF TakenOf
  <2>4. QED BY <2>1, <2>2, <2>3
<1>4. QED BY <1>2, <1>3 DEF TakenMap

\* A click that ends takes its decision away, unless another click brings it too.
LEMMA TakenRemove ==
  ASSUME ClickOK, NEW c \in Clicks, click[c].phase = "apply",
         click' = [click EXCEPT ![c] = IdleClick]
  PROVE  LET r == click[c].row
             d == Decision(click[c].action) IN
         /\ r \in Rows /\ d \in TakenMap[r] /\ d \in {"approved", "rejected"}
         /\ TakenMap' = TakenMap \/ TakenMap' = [TakenMap EXCEPT ![r] = @ \ {d}]
<1>0. click \in [Clicks -> ClickLocals] /\ click[c].row \in Rows
  BY DEF ClickOK
<1>a. PICK r \in Rows : r = click[c].row
  BY <1>0
<1>b. PICK d : d = Decision(click[c].action)
  OBVIOUS
<1>1. click'[c].phase = "idle" /\ \A k \in Clicks \ {c} : click'[k] = click[k]
  BY <1>0 DEF IdleClick
<1>2. d \in TakenMap[r] /\ d \in {"approved", "rejected"}
  BY <1>0, <1>a, <1>b DEF TakenMap, TakenOf, Decision
<1>3. ASSUME NEW q \in Rows, q # r PROVE TakenOf(q)' = TakenOf(q)
  <2>1. \A k \in Clicks : (click'[k].phase = "apply" /\ click'[k].row = q)
                            <=> (click[k].phase = "apply" /\ click[k].row = q)
    BY <1>1, <1>3, <1>a
  <2>2. \A k \in Clicks : click[k].phase = "apply" /\ click[k].row = q => click'[k] = click[k]
    BY <1>1, <1>3, <1>a
  <2>3. QED BY <2>1, <2>2 DEF TakenOf
<1>4. TakenOf(r)' = TakenOf(r) \/ TakenOf(r)' = TakenOf(r) \ {d}
  <2>1. \A x : x \in TakenOf(r)' => x \in TakenOf(r)
    BY <1>1, <1>a DEF TakenOf
  <2>2. \A x : x \in TakenOf(r) /\ x # d => x \in TakenOf(r)'
    <3> SUFFICES ASSUME NEW x \in TakenOf(r), x # d PROVE x \in TakenOf(r)'
      OBVIOUS
    <3>1. PICK k \in Clicks : /\ click[k].phase = "apply" /\ click[k].row = r
                              /\ x = Decision(click[k].action)
      BY DEF TakenOf
    <3>2. click'[k] = click[k]
      BY <1>1, <3>1, <1>b
    <3>3. QED BY <3>1, <3>2 DEF TakenOf
  <2>3. QED BY <2>1, <2>2
<1>5. TakenMap' = TakenMap \/ TakenMap' = [TakenMap EXCEPT ![r] = @ \ {d}]
  BY <1>0, <1>3, <1>4 DEF TakenMap
<1>6. QED BY <1>a, <1>b, <1>2, <1>5

LEMMA InitAsked == Init => Asked!Init
BY AskedInit DEF Init, StatusMap, StatusOf, TakenMap, TakenOf, NoRow, IdleClick

LEMMA SubmitAsked ==
  ASSUME TypeOK, InHand, NEW s \in Submits, SubmitStep(s)
  PROVE  [Asked!Next]_(Asked!vars)
<1> USE DEF TypeOK, RowsOK
<1>0. TakenMap' = TakenMap
  BY MapsKept DEF SubmitStep, SubmitLookup, SubmitCreate, SubmitLink, SubmitMail, SubmitUndo, SubmitFail
<1>1. CASE UNCHANGED requests
  BY <1>0, <1>1, MapsKept, AskedStutter
<1>2. CASE SubmitCreate(s)
  <2>1. PICK r \in Rows :
          /\ requests[r].status = "none"
          /\ requests' = [requests EXCEPT ![r] =
               [status |-> "pending", tx |-> Nothing,
                user |-> submit[s].user, config |-> submit[s].config]]
    BY <1>2 DEF SubmitCreate
  <2>2. requests'[r].status = "pending" /\ \A q \in Rows \ {r} : requests'[q] = requests[q]
    BY <2>1
  <2>3. StatusMap[r] = "none" /\ StatusOf(r)' = "pending"
    BY <2>1, <2>2 DEF StatusMap, StatusOf
  <2>4. StatusMap' = [StatusMap EXCEPT ![r] = "pending"]
    BY <2>2, <2>3, StatusSet
  <2>5. QED BY <1>0, <2>3, <2>4, AskedAsk
<1>3. CASE SubmitUndo(s)
  <2>0. PICK r \in Rows : r = submit[s].row
    BY <1>3 DEF SubmitUndo, SubmitOK
  <2>1. requests[r].status # "none"
    BY <1>3, <2>0 DEF SubmitUndo, InHand
  <2>2. requests'[r].status = "deleted" /\ \A q \in Rows \ {r} : requests'[q] = requests[q]
    BY <1>3, <2>0 DEF SubmitUndo, NoRow
  <2>3. CASE requests[r].status = "deleted"
    BY <1>0, <2>2, <2>3, MapsKept, AskedStutter
  <2>4. CASE requests[r].status # "deleted"
    <3>1. StatusMap[r] \notin {"none", "withdrawn"} /\ StatusOf(r)' = "withdrawn"
      <4>1. requests[r].status \in Statuses
        BY <2>1 DEF Row
      <4>2. QED BY <2>1, <2>2, <2>4, <4>1 DEF StatusMap, StatusOf, Statuses
    <3>2. StatusMap' = [StatusMap EXCEPT ![r] = "withdrawn"]
      BY <2>1, <2>2, <3>1, StatusSet
    <3>3. QED BY <1>0, <2>1, <3>1, <3>2, AskedWithdraw
  <2>5. QED BY <2>3, <2>4
<1>4. QED BY <1>1, <1>2, <1>3 DEF SubmitStep, SubmitLookup, SubmitLink, SubmitMail, SubmitFail

LEMMA ClickAsked ==
  ASSUME TypeOK, NEW c \in Clicks, ClickStep(c)
  PROVE  [Asked!Next]_(Asked!vars)
<1> USE DEF TypeOK, RowsOK
<1>1. ASSUME NEW r \in Rows, NEW a \in Actions, ClickCheck(c, r, a)
      PROVE  Asked!Next
  <2>1. TakenMap' = [TakenMap EXCEPT ![r] = @ \cup {Decision(a)}]
    BY <1>1, TakenAdd DEF ClickCheck
  <2>2. StatusMap' = StatusMap /\ StatusMap[r] = "pending"
    BY <1>1, MapsKept DEF ClickCheck, Usable, StatusMap, StatusOf
  <2>3. Decision(a) \in {"approved", "rejected"}
    BY DEF Decision
  <2>4. QED BY <2>1, <2>2, <2>3, AskedTake
<1>2. CASE ClickApply(c)
  <2>0. click[c].row \in Rows
    BY <1>2 DEF ClickApply, ClickOK
  <2>a. PICK r \in Rows : r = click[c].row
    BY <2>0
  <2>b. PICK d : d = Decision(click[c].action)
    OBVIOUS
  <2>1. /\ r \in Rows /\ d \in TakenMap[r] /\ d \in {"approved", "rejected"}
        /\ TakenMap' = TakenMap \/ TakenMap' = [TakenMap EXCEPT ![r] = @ \ {d}]
    BY <1>2, <2>a, <2>b, TakenRemove DEF ClickApply
  <2>2. CASE Exists(r)
    <3>1. requests[r] \in Row /\ requests \in [Rows -> Row]
      BY <2>1
    <3>2. requests'[r].status = d /\ \A q \in Rows \ {r} : requests'[q] = requests[q]
      BY <1>2, <2>a, <2>b, <2>2, <3>1 DEF ClickApply, Row
    <3>3. StatusOf(r)' = d
      BY <2>1, <3>2 DEF StatusOf
    <3>4. StatusMap[r] \notin {"none", "withdrawn"}
      BY <2>1, <2>2, <3>1 DEF StatusMap, StatusOf, Exists, Row, Statuses
    <3>5. StatusMap' = [StatusMap EXCEPT ![r] = d]
      BY <2>1, <3>2, <3>3, StatusSet
    <3>6. QED BY <2>1, <3>4, <3>5, AskedSettle
  <2>3. CASE ~ Exists(r)
    <3>1. StatusMap' = StatusMap
      BY <1>2, <2>a, <2>3, MapsKept DEF ClickApply
    <3>2. TakenMap \in [Rows -> SUBSET {"approved", "rejected"}]
      BY DEF TakenMap, TakenOf, Decision
    <3>3. /\ TakenMap' \in [Rows -> SUBSET {"approved", "rejected"}]
          /\ \A q \in Rows : TakenMap'[q] \subseteq TakenMap[q]
      BY <2>1, <3>2
    <3>4. QED BY <3>1, <3>3, AskedForget
  <2>4. QED BY <2>2, <2>3
<1>3. QED BY <1>1, <1>2 DEF ClickStep

LEMMA MarkAsked ==
  ASSUME TypeOK, LockInv, NEW m \in Marks, MarkStep(m)
  PROVE  [Asked!Next]_(Asked!vars)
<1>0. TakenMap' = TakenMap
  BY MapsKept DEF MarkStep, MarkRead, MarkVerify, MarkLock, MarkUpdate
<1>1. CASE UNCHANGED requests
  BY <1>0, <1>1, MapsKept, AskedStutter
<1>2. CASE MarkUpdate(m) /\ ~ UNCHANGED requests
  <2>0. mark[m].row \in Rows
    BY <1>2, UpdateMoves
  <2>a. PICK r \in Rows : r = mark[m].row
    BY <2>0
  <2>1. StillSeen(m)
    BY <1>2 DEF MarkUpdate
  <2>2. requests[r].status \in {"approved", "minted"}
    BY <1>2, <2>1, <2>a DEF StillSeen, LockInv, SeenOpen, Holds, MarkUpdate
  <2>3. requests'[r].status = "minted" /\ \A q \in Rows \ {r} : requests'[q] = requests[q]
    <3>1. requests \in [Rows -> Row] /\ requests[r] \in Row
      BY DEF TypeOK, RowsOK
    <3>2. QED BY <1>2, <2>1, <2>a, <3>1 DEF MarkUpdate, Row
  <2>4. CASE requests[r].status = "minted"
    BY <1>0, <2>3, <2>4, MapsKept, AskedStutter
  <2>5. CASE requests[r].status = "approved"
    <3>1. StatusMap[r] = "approved" /\ StatusOf(r)' = "executed"
      BY <2>1, <2>3, <2>5 DEF StatusMap, StatusOf
    <3>2. StatusMap' = [StatusMap EXCEPT ![r] = "executed"]
      BY <2>1, <2>3, <3>1, StatusSet
    <3>3. QED BY <1>0, <2>1, <3>1, <3>2, AskedExecute
  <2>6. QED BY <2>2, <2>4, <2>5
<1>3. QED BY <1>1, <1>2 DEF MarkStep, MarkRead, MarkVerify, MarkLock

LEMMA StepAsked == TypeOK /\ LockInv /\ InHand /\ [Next]_vars => [Asked!Next]_(Asked!vars)
<1> SUFFICES ASSUME TypeOK, LockInv, InHand, [Next]_vars PROVE [Asked!Next]_(Asked!vars)
  OBVIOUS
<1>1. CASE UNCHANGED <<requests, click>>
  BY <1>1, MapsKept, AskedStutter
<1>2. CASE Crash
  <2>1. StatusMap' = StatusMap
    BY <1>2, MapsKept DEF Crash
  <2>2. TakenMap' = [r \in Rows |-> {}]
    BY <1>2 DEF Crash, TakenMap, TakenOf, IdleClick
  <2>3. QED BY <2>1, <2>2, AskedForget
<1>3. QED BY <1>1, <1>2, SubmitAsked, ClickAsked, MarkAsked DEF Next, Expire, vars, handlers

(***************************************************************************)
(* The refinement: the submissions, the clicks and the reports, whatever   *)
(* they await in between and whenever the server stops, are asking, taking *)
(* and writing decisions, executing and withdrawing, or nothing at all.    *)
(***************************************************************************)
THEOREM HandlersImplementApproval == Spec => ImplementsApproval
<1>1. QED BY InitType, StepType, InitLock, StepLock, InitInHand, StepInHand, InitAsked, StepAsked,
             PTL DEF Spec, ImplementsApproval, Asked!Spec

-----------------------------------------------------------------------------
(* What is decided stays decided *)

Decided(r)   == requests[r].status \in {"approved", "rejected", "minted"}
Deciding(r)  == \E c \in Clicks : click[c].phase = "apply" /\ click[c].row = r
Undoing(r)   == \E s \in Submits : submit[s].phase = "undo" /\ submit[s].row = r

\* No link of a request that was decided can be used again.
LinksAreSpent == \A r \in Rows : Decided(r) => \A a \in Actions : links[r][a] = "used"

\* Once a request is decided and no other click is under way, no click ever
\* begins: it is minted, or gone with a mail that was sent though it failed.
Stands(r) ==
  Decided(r) /\ ~ Deciding(r) =>
    /\ ~ Deciding(r)'
    /\ \/ requests'[r] = requests[r]
       \/ MayMark(r) /\ requests'[r].status = "minted"
       \/ Undoing(r) /\ requests'[r].status = "deleted"

DecisionsStand == [][\A r \in Rows : Stands(r)]_vars

\* A row is in the hands of one submission, which mails it after its links are
\* written, and a click is on what was mailed.
OneSubmission == \A s, z \in Submits : submit[s].row \in Rows /\ submit[s].row = submit[z].row => s = z
LinkedFirst   == \A s \in Submits : submit[s].phase = "link" =>
                   submit[s].row \notin mailed /\ requests[submit[s].row].status = "pending"
NewRows       == \A r \in Rows : requests[r].status = "none" => r \notin mailed
ClicksOnMails == \A c \in Clicks : click[c].phase = "apply" => click[c].row \in mailed

SpentInv == OneSubmission /\ LinkedFirst /\ NewRows /\ ClicksOnMails /\ LinksAreSpent

LEMMA InitSpent == Init => SpentInv
<1> SUFFICES ASSUME Init PROVE SpentInv
  OBVIOUS
<1>1. 0 \notin Rows
  BY DEF Rows
<1>2. /\ \A s \in Submits : submit[s].phase = "idle" /\ submit[s].row = 0
      /\ \A c \in Clicks : click[c].phase = "idle"
      /\ \A r \in Rows : requests[r].status = "none"
      /\ mailed = {}
  BY DEF Init, IdleSubmit, IdleClick, NoRow
<1>3. QED BY <1>1, <1>2 DEF SpentInv, OneSubmission, LinkedFirst, NewRows, ClicksOnMails,
                            LinksAreSpent, Decided

\* The submissions.  One creates a row that no other has in hand, writes its
\* links before it is mailed, and lets go of it.
LEMMA SubmitSpent ==
  ASSUME TypeOK, InHand, SpentInv, NEW s \in Submits, SubmitStep(s)
  PROVE  SpentInv'
<1>0. /\ submit \in [Submits -> SubmitLocals] /\ 0 \notin Rows /\ requests \in [Rows -> Row]
      /\ links \in [Rows -> [Actions -> {"none", "fresh", "used"}]]
      /\ \A z \in Submits : /\ submit[z].phase \in {"link", "mail", "undo"} =>
                                 submit[z].row \in Rows /\ requests[submit[z].row].status # "none"
                            /\ submit[z].phase \in {"idle", "create"} => submit[z].row = 0
                            /\ submit[z].phase \in {"idle", "create", "link", "mail", "undo"}
  BY DEF TypeOK, SubmitOK, RowsOK, InHand, Rows, SubmitLocals
<1>1. click' = click
  BY DEF SubmitStep, SubmitLookup, SubmitCreate, SubmitLink, SubmitMail, SubmitUndo, SubmitFail
<1>2. ASSUME NEW u \in Users, NEW g \in Configs, SubmitLookup(s, u, g)
      PROVE  SpentInv'
  <2>1. /\ UNCHANGED <<requests, links, mailed>> /\ submit[s].phase = "idle"
        /\ submit'[s].row = 0 /\ submit'[s].phase = "create"
        /\ \A z \in Submits : z # s => submit'[z] = submit[z]
    BY <1>0, <1>2 DEF SubmitLookup
  <2>2. OneSubmission' /\ LinkedFirst'
    BY <1>0, <2>1 DEF SpentInv, OneSubmission, LinkedFirst, Rows
  <2>3. QED BY <1>1, <2>1, <2>2 DEF SpentInv, NewRows, ClicksOnMails, LinksAreSpent, Decided
<1>3. CASE SubmitCreate(s)
  <2>1. PICK r \in Rows :
          /\ requests[r].status = "none"
          /\ requests' = [requests EXCEPT ![r] = [status |-> "pending", tx |-> Nothing,
               user |-> submit[s].user, config |-> submit[s].config]]
          /\ submit' = [submit EXCEPT ![s].phase = "link", ![s].row = r]
    BY <1>3 DEF SubmitCreate
  <2>2. /\ UNCHANGED <<links, mailed>> /\ submit[s].phase = "create"
        /\ submit'[s].row = r /\ submit'[s].phase = "link"
        /\ \A z \in Submits : z # s => submit'[z] = submit[z]
        /\ requests'[r].status = "pending"
        /\ \A q \in Rows : q # r => requests'[q] = requests[q]
    BY <1>0, <1>3, <2>1 DEF SubmitCreate, SubmitLocals
  <2>3. \A z \in Submits : z # s => submit[z].row # r
    BY <1>0, <2>1
  <2>4. OneSubmission'
    BY <2>2, <2>3 DEF SpentInv, OneSubmission, Rows
  <2>5. LinkedFirst'
    <3>1. \A z \in Submits : z # s /\ submit[z].phase = "link" => submit[z].row \in Rows /\ submit[z].row # r
      BY <1>0, <2>3
    <3>2. r \notin mailed
      BY <2>1 DEF SpentInv, NewRows
    <3>3. QED BY <2>2, <3>1, <3>2 DEF SpentInv, LinkedFirst
  <2>6. NewRows' /\ ClicksOnMails' /\ LinksAreSpent'
    BY <1>1, <2>2 DEF SpentInv, NewRows, ClicksOnMails, LinksAreSpent, Decided, Rows
  <2>7. QED BY <2>4, <2>5, <2>6 DEF SpentInv
<1>4. CASE SubmitLink(s)
  <2> DEFINE r == submit[s].row
  <2>1. /\ UNCHANGED <<requests, mailed>> /\ submit[s].phase = "link" /\ r \in Rows
        /\ submit'[s].row = r /\ submit'[s].phase = "mail"
        /\ \A z \in Submits : z # s => submit'[z] = submit[z]
        /\ \A q \in Rows : q # r => links'[q] = links[q]
    BY <1>0, <1>4 DEF SubmitLink, SubmitLocals
  <2>2. requests[r].status = "pending"
    BY <2>1 DEF SpentInv, LinkedFirst
  <2> HIDE DEF r
  <2>3. OneSubmission'
    <3>1. \A z \in Submits : submit'[z].row = submit[z].row
      BY <2>1 DEF r
    <3>2. QED BY <3>1 DEF SpentInv, OneSubmission, Rows
  <2>4. LinkedFirst'
    BY <2>1 DEF SpentInv, LinkedFirst
  <2>5. LinksAreSpent'
    BY <2>1, <2>2 DEF SpentInv, LinksAreSpent, Decided, Rows
  <2>6. QED BY <1>1, <2>1, <2>3, <2>4, <2>5 DEF SpentInv, NewRows, ClicksOnMails
<1>5. CASE SubmitMail(s)
  <2> DEFINE r == submit[s].row
  <2>1. /\ UNCHANGED <<requests, links>> /\ submit[s].phase = "mail" /\ r \in Rows
        /\ requests[r].status # "none"
        /\ mailed \subseteq mailed' /\ mailed' \subseteq mailed \cup {r}
        /\ submit'[s].row \in {0, r} /\ submit'[s].phase \in {"idle", "undo"}
        /\ \A z \in Submits : z # s => submit'[z] = submit[z]
    BY <1>0, <1>5 DEF SubmitMail, SubmitLocals, IdleSubmit
  <2>2. \A z \in Submits : z # s => submit[z].row # r
    BY <2>1 DEF SpentInv, OneSubmission
  <2> HIDE DEF r
  <2>3. OneSubmission'
    <3>1. \A y, z \in Submits : submit'[y].row \in Rows /\ submit'[y].row = submit'[z].row => y = z
      BY <1>0, <2>1, <2>2 DEF SpentInv, OneSubmission
    <3>2. QED BY <3>1 DEF OneSubmission, Rows
  <2>4. LinkedFirst'
    BY <2>1, <2>2 DEF SpentInv, LinkedFirst
  <2>5. NewRows' /\ ClicksOnMails' /\ LinksAreSpent'
    BY <1>1, <2>1 DEF SpentInv, NewRows, ClicksOnMails, LinksAreSpent, Decided, Rows
  <2>6. QED BY <2>3, <2>4, <2>5 DEF SpentInv
<1>6. CASE SubmitUndo(s)
  <2> DEFINE r == submit[s].row
  <2>1. /\ UNCHANGED mailed /\ submit[s].phase = "undo" /\ r \in Rows
        /\ submit'[s].row = 0 /\ submit'[s].phase = "idle"
        /\ \A z \in Submits : z # s => submit'[z] = submit[z]
        /\ requests'[r].status = "deleted"
        /\ \A q \in Rows : q # r => requests'[q] = requests[q] /\ links'[q] = links[q]
    BY <1>0, <1>6 DEF SubmitUndo, NoRow, IdleSubmit
  <2>2. \A z \in Submits : z # s => submit[z].row # r
    BY <2>1 DEF SpentInv, OneSubmission
  <2> HIDE DEF r
  <2>3. OneSubmission'
    BY <1>0, <2>1 DEF SpentInv, OneSubmission, Rows
  <2>4. LinkedFirst'
    BY <1>0, <2>1, <2>2 DEF SpentInv, LinkedFirst
  <2>5. NewRows' /\ ClicksOnMails' /\ LinksAreSpent'
    BY <1>1, <2>1 DEF SpentInv, NewRows, ClicksOnMails, LinksAreSpent, Decided, Rows
  <2>6. QED BY <2>3, <2>4, <2>5 DEF SpentInv
<1>7. CASE SubmitFail(s)
  <2>1. /\ UNCHANGED <<requests, links, mailed>>
        /\ submit'[s].row = 0 /\ submit'[s].phase = "idle"
        /\ \A z \in Submits : z # s => submit'[z] = submit[z]
    BY <1>0, <1>7 DEF SubmitFail, IdleSubmit
  <2>2. OneSubmission' /\ LinkedFirst'
    BY <1>0, <2>1 DEF SpentInv, OneSubmission, LinkedFirst, Rows
  <2>3. QED BY <1>1, <2>1, <2>2 DEF SpentInv, NewRows, ClicksOnMails, LinksAreSpent, Decided
<1>8. QED BY <1>2, <1>3, <1>4, <1>5, <1>6, <1>7 DEF SubmitStep

\* The clicks: what is written spends the links in the same transaction.
LEMMA ClickSpent ==
  ASSUME TypeOK, SpentInv, NEW c \in Clicks, ClickStep(c)
  PROVE  SpentInv'
<1>0. /\ requests \in [Rows -> Row] /\ click \in [Clicks -> ClickLocals]
      /\ links \in [Rows -> [Actions -> {"none", "fresh", "used"}]]
      /\ UNCHANGED <<submit, mailed>>
  BY DEF TypeOK, RowsOK, ClickOK, ClickStep, ClickCheck, ClickApply
<1>1. ASSUME NEW r \in Rows, NEW a \in Actions, ClickCheck(c, r, a)
      PROVE  SpentInv'
  <2>1. /\ r \in mailed /\ UNCHANGED <<requests, links>>
        /\ click'[c].row = r /\ \A k \in Clicks : k # c => click'[k] = click[k]
    BY <1>0, <1>1 DEF ClickCheck, Usable
  <2>2. ClicksOnMails'
    BY <1>0, <2>1 DEF SpentInv, ClicksOnMails
  <2>3. QED BY <1>0, <2>1, <2>2 DEF SpentInv, OneSubmission, LinkedFirst, NewRows,
                                    LinksAreSpent, Decided, Rows
<1>2. CASE ClickApply(c)
  <2> DEFINE r == click[c].row
  <2>1. /\ r \in Rows /\ r \in mailed /\ click'[c].phase = "idle"
        /\ \A k \in Clicks : k # c => click'[k] = click[k]
    BY <1>0, <1>2 DEF ClickApply, IdleClick, TypeOK, ClickOK, SpentInv, ClicksOnMails
  <2>2. ClicksOnMails' /\ OneSubmission'
    BY <1>0, <2>1 DEF SpentInv, ClicksOnMails, OneSubmission, Rows
  <2>3. CASE ~ Exists(r)
    <3>1. UNCHANGED <<requests, links>>
      BY <1>2, <2>3 DEF ClickApply
    <3>2. QED BY <1>0, <2>2, <3>1 DEF SpentInv, LinkedFirst, NewRows, LinksAreSpent, Decided, Rows
  <2>4. CASE Exists(r)
    <3>1. /\ \A a \in Actions : links'[r][a] = "used"
          /\ \A q \in Rows : q # r => requests'[q] = requests[q] /\ links'[q] = links[q]
          /\ requests'[r].status \in {"approved", "rejected"}
      <4>1. requests[r] \in Row
        BY <1>0, <2>1
      <4>2. QED BY <1>0, <1>2, <2>1, <2>4, <4>1 DEF ClickApply, Row, Decision
    <3> HIDE DEF r
    <3>2. LinkedFirst'
      <4>1. \A s \in Submits : submit[s].phase = "link" => submit[s].row \in Rows /\ submit[s].row # r
        BY <2>1 DEF SpentInv, LinkedFirst, TypeOK, SubmitOK
      <4>2. QED BY <1>0, <3>1, <4>1 DEF SpentInv, LinkedFirst
    <3>3. NewRows' /\ LinksAreSpent'
      BY <1>0, <3>1 DEF SpentInv, NewRows, LinksAreSpent, Decided, Rows, Actions
    <3>4. QED BY <2>2, <3>2, <3>3 DEF SpentInv
  <2>5. QED BY <2>3, <2>4
<1>3. QED BY <1>1, <1>2 DEF ClickStep

LEMMA StepSpent == TypeOK /\ LockInv /\ InHand /\ SpentInv /\ [Next]_vars => SpentInv'
<1> SUFFICES ASSUME TypeOK, LockInv, InHand, SpentInv, [Next]_vars PROVE SpentInv'
  OBVIOUS
<1>1. ASSUME NEW m \in Marks, MarkUpdate(m) PROVE SpentInv'
  <2>1. UNCHANGED <<submit, click, mailed, links>>
    BY <1>1 DEF MarkUpdate
  <2>2. \A q \in Rows : \/ requests'[q] = requests[q]
                        \/ Decided(q) /\ requests'[q].status = "minted"
    <3>1. mark[m].seen \in {"approved", "minted"}
      BY <1>1 DEF LockInv, SeenOpen, Holds, MarkUpdate
    <3>2. StillSeen(m) => Decided(mark[m].row)
      BY <3>1 DEF StillSeen, Decided
    <3>3. QED BY <1>1, <3>2, UpdateMoves
  <2>3. \A s \in Submits : submit[s].phase = "link" => submit[s].row \in Rows
    BY DEF TypeOK, SubmitOK
  <2>4. QED BY <2>1, <2>2, <2>3 DEF SpentInv, OneSubmission, LinkedFirst, NewRows, ClicksOnMails,
                                    LinksAreSpent, Decided, Rows
<1>2. CASE Crash
  <2>1. /\ UNCHANGED <<requests, links, mailed>> /\ 0 \notin Rows
        /\ \A s \in Submits : submit'[s].phase = "idle" /\ submit'[s].row = 0
        /\ \A c \in Clicks : click'[c].phase = "idle"
    BY <1>2 DEF Crash, IdleSubmit, IdleClick, Rows
  <2>2. QED BY <2>1 DEF SpentInv, OneSubmission, LinkedFirst, NewRows, ClicksOnMails,
                        LinksAreSpent, Decided, Rows
<1>3. CASE UNCHANGED <<requests, links, mailed, submit, click>>
  BY <1>3 DEF SpentInv, OneSubmission, LinkedFirst, NewRows, ClicksOnMails, LinksAreSpent,
              Decided, Rows
<1>4. QED BY <1>1, <1>2, <1>3, SubmitSpent, ClickSpent
          DEF Next, MarkStep, MarkRead, MarkVerify, MarkLock, Expire, vars, handlers

(***************************************************************************)
(* A decision spends both links of its request, whoever follows the other  *)
(* one at the same time and wherever the server stops.                     *)
(***************************************************************************)
THEOREM LinksGetSpent == Spec => []LinksAreSpent
<1>1. SpentInv => LinksAreSpent
  BY DEF SpentInv
<1>2. QED BY <1>1, InitType, StepType, InitLock, StepLock, InitInHand, StepInHand,
             InitSpent, StepSpent, PTL DEF Spec

LEMMA StepStands == TypeOK /\ LockInv /\ [Next]_vars => \A r \in Rows : Stands(r)
<1>1. ASSUME TypeOK, LockInv, [Next]_vars, NEW r \in Rows, Decided(r), ~ Deciding(r)
      PROVE  Stands(r)
  <2>0. requests \in [Rows -> Row] /\ click \in [Clicks -> ClickLocals]
    BY <1>1 DEF TypeOK, RowsOK, ClickOK
  <2>1. ASSUME NEW s \in Submits, SubmitStep(s) PROVE Stands(r)
    <3>1. click' = click /\ ~ Deciding(r)'
      BY <1>1, <2>1 DEF SubmitStep, SubmitLookup, SubmitCreate, SubmitLink, SubmitMail, SubmitUndo, SubmitFail, Deciding
    <3>2. CASE SubmitUndo(s)
      <4>1. submit[s].row \in Rows
        BY <1>1, <3>2 DEF SubmitUndo, TypeOK, SubmitOK
      <4>2. /\ requests'[submit[s].row].status = "deleted"
            /\ r # submit[s].row => requests'[r] = requests[r]
        BY <2>0, <3>2, <4>1 DEF SubmitUndo, NoRow
      <4>3. r = submit[s].row => Undoing(r)
        BY <3>2 DEF SubmitUndo, Undoing
      <4>4. QED BY <3>1, <4>2, <4>3 DEF Stands
    <3>3. CASE SubmitCreate(s)
      <4>1. requests'[r] = requests[r]
        BY <1>1, <2>0, <3>3 DEF SubmitCreate, Decided
      <4>2. QED BY <3>1, <4>1 DEF Stands
    <3>4. CASE UNCHANGED requests
      BY <3>1, <3>4 DEF Stands
    <3>5. QED BY <2>1, <3>2, <3>3, <3>4 DEF SubmitStep, SubmitLookup, SubmitLink, SubmitMail, SubmitFail
  <2>2. ASSUME NEW c \in Clicks, ClickStep(c) PROVE Stands(r)
    <3>1. CASE ClickApply(c)
      <4>1. click[c].row \in Rows /\ click[c].row # r
        BY <1>1, <3>1 DEF ClickApply, Deciding, TypeOK, ClickOK
      <4>2. requests'[r] = requests[r]
        BY <2>0, <3>1, <4>1 DEF ClickApply
      <4>3. ~ Deciding(r)'
        BY <1>1, <2>0, <3>1 DEF ClickApply, IdleClick, Deciding
      <4>4. QED BY <4>2, <4>3 DEF Stands
    <3>2. ASSUME NEW q \in Rows, NEW a \in Actions, ClickCheck(c, q, a) PROVE Stands(r)
      <4>1. q # r
        BY <1>1, <3>2 DEF ClickCheck, Usable, Decided
      <4>2. ~ Deciding(r)'
        BY <1>1, <2>0, <3>2, <4>1 DEF ClickCheck, Deciding
      <4>3. QED BY <3>2, <4>2 DEF ClickCheck, Stands
    <3>3. QED BY <2>2, <3>1, <3>2 DEF ClickStep
  <2>3. ASSUME NEW m \in Marks, MarkUpdate(m) PROVE Stands(r)
    <3>1. mark[m].seen \in {"approved", "minted"}
      BY <1>1, <2>3 DEF LockInv, SeenOpen, Holds, MarkUpdate
    <3>2. StillSeen(m) => MayMark(mark[m].row)
      BY <3>1 DEF StillSeen, MayMark
    <3>3. requests'[r] = requests[r] \/ (MayMark(r) /\ requests'[r].status = "minted")
      BY <1>1, <2>3, <3>2, UpdateMoves
    <3>4. ~ Deciding(r)'
      BY <1>1, <2>3 DEF MarkUpdate, Deciding
    <3>5. QED BY <3>3, <3>4 DEF Stands
  <2>4. CASE Crash
    BY <2>4 DEF Crash, IdleClick, Deciding, Stands
  <2>5. CASE UNCHANGED <<requests, click>>
    BY <1>1, <2>5 DEF Deciding, Stands
  <2>6. QED BY <1>1, <2>1, <2>2, <2>3, <2>4, <2>5
            DEF Next, MarkStep, MarkRead, MarkVerify, MarkLock, Expire, vars, handlers
<1>2. QED BY <1>1 DEF Stands

(***************************************************************************)
(* And when no other decision was taken by then, it is the last: the       *)
(* request is minted, if it was approved, or goes with the submission      *)
(* whose mail seemed to fail, and nothing else happens to it.              *)
(***************************************************************************)
THEOREM DecisionsAreFinal == Spec => DecisionsStand
<1>1. TypeOK /\ LockInv /\ [Next]_vars => [\A r \in Rows : Stands(r)]_vars
  BY StepStands
<1>2. QED BY <1>1, InitType, StepType, InitLock, StepLock, PTL DEF Spec, DecisionsStand
=============================================================================
