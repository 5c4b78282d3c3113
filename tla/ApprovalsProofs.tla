---------------------------- MODULE ApprovalsProofs ----------------------------
(***************************************************************************)
(* The other two desks of the backend.  Requests to deploy a security      *)
(* token run through the same statements as mint requests, so what was     *)
(* proved of those holds of these with their tables in place, decisions    *)
(* and spent links included; and what identity checks promise about a      *)
(* decision by a mailed link.                                              *)
(***************************************************************************)
EXTENDS MintApproval, KycReview, TLAPS

VARIABLES applications, tokens, lapsed, received, applying, deciding, restarts, halted

INSTANCE SecurityTokenRequests

Desk == INSTANCE MintApprovalProofs WITH
  requests <- applications, links <- tokens, expired <- lapsed, mailed <- received,
  submit <- applying, click <- deciding, crashes <- restarts, broken <- halted,
  Marks <- {}, mark <- <<>>, Txs <- {}, MintOf <- <<>>

-----------------------------------------------------------------------------
(* Requests to deploy a security token *)

LEMMA DeskAssumption ==
  /\ MaxRows \in Nat /\ MaxCrashes \in Nat
  /\ Nothing \notin {} \cup Users \cup Configs
  /\ <<>> \in [{} -> Configs]
BY MintAssumption

\* The deployment's handlers are those of the instance.
LEMMA DeployStarts == DeployInit => Desk!Init
BY DEF DeployInit, Flow!Init, Desk!Init, Flow!Rows, Desk!Rows, Flow!Actions, Desk!Actions, Flow!NoRow,
       Desk!NoRow, Flow!IdleSubmit, Desk!IdleSubmit, Flow!IdleClick, Desk!IdleClick,
       Flow!IdleMark, Desk!IdleMark

LEMMA DeploySteps == [DeployNext]_deployVars => [Desk!Next]_(Desk!vars)
<1>1. ASSUME UNCHANGED deployVars PROVE UNCHANGED Desk!vars
  BY <1>1 DEF deployVars, Desk!vars, Desk!handlers
<1>2. ASSUME NEW s \in Submits, DeploySubmit(s) PROVE Desk!SubmitStep(s)
  BY <1>2 DEF DeploySubmit, Flow!SubmitStep, Desk!SubmitStep, Flow!SubmitLookup, Desk!SubmitLookup,
         Flow!SubmitCreate, Desk!SubmitCreate, Flow!SubmitLink, Desk!SubmitLink,
         Flow!SubmitMail, Desk!SubmitMail, Flow!SubmitUndo, Desk!SubmitUndo, Flow!SubmitFail, Desk!SubmitFail, Flow!Rows,
         Desk!Rows, Flow!Actions, Desk!Actions, Flow!IdleSubmit, Desk!IdleSubmit, Flow!NoRow,
         Desk!NoRow
<1>3. ASSUME NEW c \in Clicks, DeployClick(c) PROVE Desk!ClickStep(c)
  BY <1>3 DEF DeployClick, Flow!ClickStep, Desk!ClickStep, Flow!ClickCheck, Desk!ClickCheck, Flow!ClickApply,
         Desk!ClickApply, Flow!Rows, Desk!Rows, Flow!Actions, Desk!Actions, Flow!IdleClick,
         Desk!IdleClick, Flow!Usable, Desk!Usable, Flow!Exists, Desk!Exists, Flow!Decision,
         Desk!Decision
<1>4. ASSUME NEW r \in Flow!Rows, Flow!Expire(r) PROVE r \in Desk!Rows /\ Desk!Expire(r)
  BY <1>4 DEF Flow!Expire, Desk!Expire, Flow!handlers, Desk!handlers, Flow!Rows, Desk!Rows
<1>5. Flow!Crash => Desk!Crash
  BY DEF Flow!Crash, Desk!Crash, Flow!Rows, Desk!Rows, Flow!IdleSubmit, Desk!IdleSubmit, Flow!IdleClick,
         Desk!IdleClick, Flow!IdleMark, Desk!IdleMark
<1>6. QED BY <1>1, <1>2, <1>3, <1>4, <1>5 DEF DeployNext, Desk!Next

\* Nothing reports a deployment back, so none is ever marked as done.
NoneMinted == \A r \in Flow!Rows : applications[r].status # "minted"

DeployInv == Desk!TypeOK /\ Desk!LockInv /\ Desk!InHand /\ NoneMinted

LEMMA InitDeploy == DeployInit => DeployInv
<1> SUFFICES ASSUME DeployInit PROVE DeployInv
  OBVIOUS
<1>1. Desk!Init
  BY DeployStarts
<1>2. Desk!TypeOK /\ Desk!LockInv /\ Desk!InHand
  BY <1>1, DeskAssumption, Desk!InitType, Desk!InitLock, Desk!InitInHand
<1>3. NoneMinted
  BY <1>1 DEF Desk!Init, NoneMinted, Desk!NoRow, Desk!Rows, Flow!Rows
<1>4. QED BY <1>2, <1>3 DEF DeployInv

LEMMA StepDeploy == DeployInv /\ [DeployNext]_deployVars => DeployInv'
<1> SUFFICES ASSUME DeployInv, [DeployNext]_deployVars PROVE DeployInv'
  OBVIOUS
<1>1. [Desk!Next]_(Desk!vars) /\ Desk!TypeOK /\ Desk!LockInv /\ Desk!InHand
  BY DeploySteps DEF DeployInv
<1>2. Desk!TypeOK' /\ Desk!LockInv' /\ Desk!InHand'
  BY <1>1, DeskAssumption, Desk!StepType, Desk!StepLock, Desk!StepInHand
<1>3. ASSUME \/ \E s \in Submits : Desk!SubmitStep(s)
             \/ \E c \in Clicks : Desk!ClickStep(c)
      PROVE  NoneMinted'
  BY <1>1, <1>3, DeskAssumption, Desk!MintedBefore DEF DeployInv, NoneMinted, Desk!Rows, Flow!Rows
<1>4. NoneMinted'
  BY <1>1, <1>3 DEF DeployInv, NoneMinted, Desk!Next, Desk!Expire, Desk!Crash, Desk!vars
<1>5. QED BY <1>2, <1>4 DEF DeployInv

\* Where no request is minted, the two abstractions of the status are one.
ReviewedStatus == [r \in Flow!Rows |-> IF applications[r].status = "deleted" THEN "withdrawn"
                                       ELSE applications[r].status]
ReviewedTaken == [r \in Flow!Rows |-> {Flow!Decision(deciding[c].action) :
                    c \in {k \in Clicks : deciding[k].phase = "apply" /\ deciding[k].row = r}}]

LEMMA SameMaps ==
  /\ NoneMinted => ReviewedStatus = Desk!StatusMap
  /\ NoneMinted' => ReviewedStatus' = Desk!StatusMap'
  /\ ReviewedTaken = Desk!TakenMap /\ ReviewedTaken' = Desk!TakenMap'
BY DEF NoneMinted, ReviewedStatus, ReviewedTaken, Desk!StatusMap, Desk!StatusOf, Desk!TakenMap,
       Desk!TakenOf, Flow!Rows, Desk!Rows, Flow!Decision, Desk!Decision

LEMMA ReviewedStep ==
  NoneMinted /\ NoneMinted' /\ [Desk!Asked!Next]_(Desk!Asked!vars) => [Reviewed!Next]_(Reviewed!vars)
<1> SUFFICES ASSUME NoneMinted, NoneMinted', [Desk!Asked!Next]_(Desk!Asked!vars)
             PROVE  [Reviewed!Next]_(Reviewed!vars)
  OBVIOUS
<1>0. /\ ReviewedStatus = Desk!StatusMap /\ ReviewedStatus' = Desk!StatusMap'
      /\ ReviewedTaken = Desk!TakenMap /\ ReviewedTaken' = Desk!TakenMap'
      /\ Flow!Rows = Desk!Rows
  BY SameMaps DEF Flow!Rows, Desk!Rows
<1>1. CASE UNCHANGED Desk!Asked!vars
  <2>1. Desk!StatusMap' = Desk!StatusMap /\ Desk!TakenMap' = Desk!TakenMap
    BY <1>1 DEF Desk!Asked!vars, Desk!StatusMap, Desk!StatusOf, Desk!TakenMap, Desk!TakenOf
  <2>2. ReviewedStatus' = ReviewedStatus /\ ReviewedTaken' = ReviewedTaken
    BY <1>0, <2>1
  <2>3. QED BY <2>2 DEF Reviewed!vars, ReviewedStatus, ReviewedTaken
<1>2. ASSUME NEW r \in Desk!Rows, Desk!Asked!Ask(r) PROVE Reviewed!Ask(r)
  <2>1. Desk!StatusMap[r] = "none" /\ Desk!StatusMap' = [Desk!StatusMap EXCEPT ![r] = "pending"] /\ Desk!TakenMap' = Desk!TakenMap
    BY <1>2 DEF Desk!Asked!Ask, Desk!StatusMap, Desk!StatusOf, Desk!TakenMap, Desk!TakenOf
  <2>2. ReviewedStatus[r] = "none" /\ ReviewedStatus' = [ReviewedStatus EXCEPT ![r] = "pending"] /\ ReviewedTaken' = ReviewedTaken
    BY <1>0, <2>1
  <2>3. QED BY <1>0, <2>2 DEF Reviewed!Ask, ReviewedStatus, ReviewedTaken
<1>3. ASSUME NEW r \in Desk!Rows, NEW d \in Desk!Asked!Decisions, Desk!Asked!Take(r, d) PROVE Reviewed!Take(r, d)
  <2>1. /\ Desk!StatusMap[r] = "pending" /\ Desk!StatusMap' = Desk!StatusMap
        /\ Desk!TakenMap' = [Desk!TakenMap EXCEPT ![r] = @ \cup {d}]
    BY <1>3 DEF Desk!Asked!Take, Desk!StatusMap, Desk!StatusOf, Desk!TakenMap, Desk!TakenOf
  <2>2. /\ ReviewedStatus[r] = "pending" /\ ReviewedStatus' = ReviewedStatus
        /\ ReviewedTaken' = [ReviewedTaken EXCEPT ![r] = @ \cup {d}]
    BY <1>0, <2>1
  <2>3. QED BY <1>0, <2>2 DEF Reviewed!Take, ReviewedStatus, ReviewedTaken
<1>4. ASSUME NEW r \in Desk!Rows, NEW d \in Desk!Asked!Decisions, Desk!Asked!Settle(r, d) PROVE Reviewed!Settle(r, d)
  <2>1. /\ Desk!StatusMap[r] \notin {"none", "withdrawn"} /\ d \in Desk!TakenMap[r]
        /\ Desk!StatusMap' = [Desk!StatusMap EXCEPT ![r] = d]
        /\ Desk!TakenMap' \in {Desk!TakenMap, [Desk!TakenMap EXCEPT ![r] = @ \ {d}]}
    BY <1>4 DEF Desk!Asked!Settle, Desk!Asked!Open, Desk!StatusMap, Desk!StatusOf, Desk!TakenMap, Desk!TakenOf
  <2>2. /\ ReviewedStatus[r] \notin {"none", "withdrawn"} /\ d \in ReviewedTaken[r]
        /\ ReviewedStatus' = [ReviewedStatus EXCEPT ![r] = d]
        /\ ReviewedTaken' \in {ReviewedTaken, [ReviewedTaken EXCEPT ![r] = @ \ {d}]}
    BY <1>0, <2>1
  <2>3. QED BY <1>0, <2>2 DEF Reviewed!Settle, Reviewed!Open, ReviewedStatus, ReviewedTaken
<1>5. ASSUME Desk!Asked!Forget PROVE Reviewed!Forget
  <2>1. /\ Desk!TakenMap' \in [Desk!Rows -> SUBSET {"approved", "rejected"}]
        /\ \A r \in Desk!Rows : Desk!TakenMap'[r] \subseteq Desk!TakenMap[r]
        /\ Desk!StatusMap' = Desk!StatusMap
    BY <1>5 DEF Desk!Asked!Forget, Desk!Asked!Decisions, Desk!StatusMap, Desk!StatusOf, Desk!TakenMap, Desk!TakenOf
  <2>2. /\ ReviewedTaken' \in [Desk!Rows -> SUBSET {"approved", "rejected"}]
        /\ \A r \in Desk!Rows : ReviewedTaken'[r] \subseteq ReviewedTaken[r]
        /\ ReviewedStatus' = ReviewedStatus
    BY <1>0, <2>1
  <2>3. QED BY <1>0, <2>2 DEF Reviewed!Forget, Reviewed!Decisions, ReviewedStatus, ReviewedTaken
<1>6. ASSUME NEW r \in Desk!Rows, Desk!Asked!Execute(r) PROVE Reviewed!Execute(r)
  <2>1. Desk!StatusMap[r] = "approved" /\ Desk!StatusMap' = [Desk!StatusMap EXCEPT ![r] = "executed"] /\ Desk!TakenMap' = Desk!TakenMap
    BY <1>6 DEF Desk!Asked!Execute, Desk!StatusMap, Desk!StatusOf, Desk!TakenMap, Desk!TakenOf
  <2>2. ReviewedStatus[r] = "approved" /\ ReviewedStatus' = [ReviewedStatus EXCEPT ![r] = "executed"] /\ ReviewedTaken' = ReviewedTaken
    BY <1>0, <2>1
  <2>3. QED BY <1>0, <2>2 DEF Reviewed!Execute, ReviewedStatus, ReviewedTaken
<1>7. ASSUME NEW r \in Desk!Rows, Desk!Asked!Withdraw(r) PROVE Reviewed!Withdraw(r)
  <2>1. /\ Desk!StatusMap[r] \notin {"none", "withdrawn"}
        /\ Desk!StatusMap' = [Desk!StatusMap EXCEPT ![r] = "withdrawn"] /\ Desk!TakenMap' = Desk!TakenMap
    BY <1>7 DEF Desk!Asked!Withdraw, Desk!Asked!Open, Desk!StatusMap, Desk!StatusOf, Desk!TakenMap, Desk!TakenOf
  <2>2. /\ ReviewedStatus[r] \notin {"none", "withdrawn"}
        /\ ReviewedStatus' = [ReviewedStatus EXCEPT ![r] = "withdrawn"] /\ ReviewedTaken' = ReviewedTaken
    BY <1>0, <2>1
  <2>3. QED BY <1>0, <2>2 DEF Reviewed!Withdraw, Reviewed!Open, ReviewedStatus, ReviewedTaken
<1>8. Desk!Asked!Decisions = Reviewed!Decisions
  BY DEF Desk!Asked!Decisions, Reviewed!Decisions
<1>9. QED
  BY <1>0, <1>1, <1>2, <1>3, <1>4, <1>5, <1>6, <1>7, <1>8 DEF Desk!Asked!Next, Reviewed!Next

(***************************************************************************)
(* The same refinement for the requests to deploy: only what was decided   *)
(* while a request was pending is written, and nothing reopens one.        *)
(***************************************************************************)
THEOREM DeployDeskImplementsApproval == DeploySpec => DeployImplementsApproval
<1>1. DeployInit => Reviewed!Init
  <2> SUFFICES ASSUME DeployInit PROVE Reviewed!Init
    OBVIOUS
  <2>1. Desk!Init /\ NoneMinted
    BY DeployStarts, InitDeploy DEF DeployInv
  <2>2. Desk!Asked!Init
    BY <2>1, DeskAssumption, Desk!InitAsked
  <2>3. Desk!StatusMap = [r \in Desk!Rows |-> "none"] /\ Desk!TakenMap = [r \in Desk!Rows |-> {}]
    BY <2>2 DEF Desk!Asked!Init, Desk!StatusMap, Desk!StatusOf, Desk!TakenMap, Desk!TakenOf
  <2>4. /\ ReviewedStatus = [r \in Flow!Rows |-> "none"]
        /\ ReviewedTaken = [r \in Flow!Rows |-> {}]
    BY <2>1, <2>3, SameMaps DEF Flow!Rows, Desk!Rows
  <2>5. QED BY <2>4 DEF Reviewed!Init, ReviewedStatus, ReviewedTaken
<1>2. DeployInv /\ DeployInv' /\ [DeployNext]_deployVars => [Reviewed!Next]_(Reviewed!vars)
  <2> SUFFICES ASSUME DeployInv, DeployInv', [DeployNext]_deployVars
               PROVE  [Reviewed!Next]_(Reviewed!vars)
    OBVIOUS
  <2>1. [Desk!Asked!Next]_(Desk!Asked!vars)
    BY DeploySteps, DeskAssumption, Desk!StepAsked DEF DeployInv
  <2>2. QED BY <2>1, ReviewedStep DEF DeployInv
<1>3. QED BY <1>1, <1>2, InitDeploy, StepDeploy, PTL DEF DeploySpec, DeployImplementsApproval, Reviewed!Spec

\* A decided request to deploy, on which no click is under way.
DeployDecided(r) ==
  /\ applications[r].status \in {"approved", "rejected"}
  /\ ~ \E c \in Clicks : deciding[c].phase = "apply" /\ deciding[c].row = r

DeployLinksAreSpent ==
  \A r \in Flow!Rows : applications[r].status \in {"approved", "rejected"} =>
    \A a \in Flow!Actions : tokens[r][a] = "used"

\* Nothing finalizes it, so it stays as it is, or goes with the submission whose
\* mail seemed to fail.
DeployStands(r) ==
  DeployDecided(r) => \/ DeployDecided(r)' /\ applications'[r] = applications[r]
                      \/ /\ \E s \in Submits : applying[s].phase = "undo" /\ applying[s].row = r
                         /\ applications'[r].status = "deleted"

DeployDecisionsStand == [][\A r \in Flow!Rows : DeployStands(r)]_deployVars

(***************************************************************************)
(* A decision spends both links of a request to deploy, and when no other  *)
(* was taken by then it is the last.                                       *)
(***************************************************************************)
THEOREM DeployDecisionsAreFinal == DeploySpec => []DeployLinksAreSpent /\ DeployDecisionsStand
<1>1. DeployInit => Desk!SpentInv
  BY DeployStarts, DeskAssumption, Desk!InitSpent
<1>2. DeployInv /\ Desk!SpentInv /\ [DeployNext]_deployVars => Desk!SpentInv'
  BY DeploySteps, DeskAssumption, Desk!StepSpent DEF DeployInv
<1>3. Desk!SpentInv => DeployLinksAreSpent
  BY DEF Desk!SpentInv, Desk!LinksAreSpent, Desk!Decided, DeployLinksAreSpent,
         Flow!Rows, Desk!Rows, Flow!Actions, Desk!Actions
<1>4. ASSUME DeployInv, DeployInv', [DeployNext]_deployVars, NEW r \in Flow!Rows
      PROVE  DeployStands(r)
  <2>1. r \in Desk!Rows /\ Desk!Stands(r)
    BY <1>4, DeploySteps, DeskAssumption, Desk!StepStands DEF DeployInv, Flow!Rows, Desk!Rows
  <2>2. applications'[r].status # "minted"
    BY <1>4 DEF DeployInv, NoneMinted, Flow!Rows
  <2>3. QED BY <2>1, <2>2 DEF Desk!Stands, Desk!Decided, Desk!Deciding, Desk!Undoing,
                              DeployStands, DeployDecided
<1>5. DeployInv /\ DeployInv' /\ [DeployNext]_deployVars => [\A r \in Flow!Rows : DeployStands(r)]_deployVars
  BY <1>4
<1>6. QED BY <1>1, <1>2, <1>3, <1>5, InitDeploy, StepDeploy, PTL DEF DeploySpec, DeployDecisionsStand

-----------------------------------------------------------------------------
(* Identity checks *)

KycStatuses == {"not_submitted", "pending"} \cup Verdicts

Review == [at : {"idle", "user", "status", "notes", "retire"}, who : Applicants \cup {NoOne},
           verdict : Verdicts \cup {"none"}, byLink : BOOLEAN, raced : BOOLEAN]

Submission == [at : {"idle", "pending", "mail"}, who : Applicants \cup {NoOne},
               verdict : Verdicts \cup {"none"}, byLink : BOOLEAN, raced : BOOLEAN]

KycTypeOK ==
  /\ kycStatus \in [Applicants -> KycStatuses]
  /\ kycData \in [Applicants -> Nat]
  /\ unused \subseteq Applicants \X Nat \X Verdicts
  /\ submitter \in [Submitters -> Submission]
  /\ reviewer \in [Reviewers -> Review]

\* A handler at work is about an applicant, and a reviewer brings a verdict.
AtWork ==
  /\ \A s \in Submitters : submitter[s].at # "idle" => submitter[s].who \in Applicants
  /\ \A r \in Reviewers : reviewer[r].at # "idle" =>
       reviewer[r].who \in Applicants /\ reviewer[r].verdict \in Verdicts

\* What a link's handler has read is still so, unless the status was written.
SeenPending ==
  \A r \in Reviewers :
    reviewer[r].at = "status" /\ reviewer[r].byLink /\ ~ reviewer[r].raced
      => kycStatus[reviewer[r].who] = "pending"

KycInv == KycTypeOK /\ AtWork /\ SeenPending

LEMMA InitKyc == KycInit => KycInv
BY DEF KycInit, KycInv, KycTypeOK, AtWork, SeenPending, Free, KycStatuses, Review, Submission

\* Whoever writes the status marks the others that are about to write it.
LEMMA StatusIsWritten ==
  ASSUME KycInv, NEW a \in Applicants, NEW status \in KycStatuses, StatusWritten(a, status)
  PROVE  /\ kycStatus' \in [Applicants -> KycStatuses]
         /\ reviewer' \in [Reviewers -> Review]
         /\ \A r \in Reviewers : reviewer'[r].at # "idle" =>
              reviewer'[r].who \in Applicants /\ reviewer'[r].verdict \in Verdicts
         /\ SeenPending'
<1>1. kycStatus' \in [Applicants -> KycStatuses]
  BY DEF KycInv, KycTypeOK, StatusWritten
<1>2. ASSUME NEW r \in Reviewers
      PROVE  /\ reviewer'[r] \in Review
             /\ reviewer'[r].at # "idle" =>
                  reviewer'[r].who \in Applicants /\ reviewer'[r].verdict \in Verdicts
             /\ reviewer'[r].at = "status" /\ reviewer'[r].byLink /\ ~ reviewer'[r].raced
                  => kycStatus'[reviewer'[r].who] = "pending"
  <2> DEFINE v == reviewer[r]
  <2>1. /\ v \in Review /\ (v.at # "idle" => v.who \in Applicants /\ v.verdict \in Verdicts)
        /\ (v.at = "status" /\ v.byLink /\ ~ v.raced => kycStatus[v.who] = "pending")
    BY DEF KycInv, KycTypeOK, AtWork, SeenPending
  <2>2. reviewer'[r] = IF v.at = "status" /\ v.who = a THEN [v EXCEPT !.raced = TRUE] ELSE v
    BY DEF StatusWritten
  <2>3. \A b \in Applicants : b # a => kycStatus'[b] = kycStatus[b]
    BY DEF KycInv, KycTypeOK, StatusWritten
  <2> HIDE DEF v
  <2>4. CASE v.at = "status" /\ v.who = a
    BY <2>1, <2>2, <2>4 DEF Review
  <2>5. CASE ~ (v.at = "status" /\ v.who = a)
    BY <2>1, <2>2, <2>3, <2>5 DEF Review
  <2>6. QED BY <2>4, <2>5
<1>3. reviewer' = [r \in Reviewers |-> reviewer'[r]]
  BY DEF StatusWritten
<1>4. reviewer' \in [Reviewers -> Review]
  BY <1>2, <1>3
<1>5. QED BY <1>1, <1>2, <1>4 DEF SeenPending

\* One reviewer goes on and no status is written.
LEMMA OneReviews ==
  ASSUME KycInv, NEW r \in Reviewers, NEW v \in Review,
         reviewer' = [reviewer EXCEPT ![r] = v], UNCHANGED <<kycStatus, kycData, submitter>>,
         unused' \subseteq unused,
         v.at # "idle" => v.who \in Applicants /\ v.verdict \in Verdicts,
         v.at = "status" /\ v.byLink /\ ~ v.raced => kycStatus[v.who] = "pending"
  PROVE  KycInv'
<1>1. \A q \in Reviewers : reviewer'[q] = IF q = r THEN v ELSE reviewer[q]
  BY DEF KycInv, KycTypeOK
<1>2. KycTypeOK'
  BY DEF KycInv, KycTypeOK
<1>3. AtWork'
  BY <1>1 DEF KycInv, AtWork
<1>4. SeenPending'
  BY <1>1 DEF KycInv, SeenPending
<1>5. QED BY <1>2, <1>3, <1>4 DEF KycInv

\* One submission goes on and no status is written.
LEMMA OneSubmits ==
  ASSUME KycInv, NEW s \in Submitters, NEW v \in Submission,
         submitter' = [submitter EXCEPT ![s] = v], UNCHANGED <<kycStatus, reviewer>>,
         kycData' \in [Applicants -> Nat], unused' \subseteq Applicants \X Nat \X Verdicts,
         v.at # "idle" => v.who \in Applicants
  PROVE  KycInv'
<1>1. \A q \in Submitters : submitter'[q] = IF q = s THEN v ELSE submitter[q]
  BY DEF KycInv, KycTypeOK
<1>2. KycTypeOK'
  BY DEF KycInv, KycTypeOK
<1>3. AtWork'
  BY <1>1 DEF KycInv, AtWork
<1>4. SeenPending'
  BY DEF KycInv, SeenPending
<1>5. QED BY <1>2, <1>3, <1>4 DEF KycInv

LEMMA FreeTypes == Free \in Review /\ Free \in Submission /\ Free.at = "idle"
BY DEF Free, Review, Submission

LEMMA SubmitterSteps ==
  ASSUME KycInv, NEW s \in Submitters,
         \/ \E a \in Applicants : UpsertData(s, a)
         \/ StatusPending(s) \/ MailReview(s)
  PROVE  KycInv'
<1>1. ASSUME NEW a \in Applicants, UpsertData(s, a) PROVE KycInv'
  <2> DEFINE v == [Free EXCEPT !.at = "pending", !.who = a]
  <2>1. v \in Submission /\ v.who = a
    BY DEF Free, Submission
  <2>2. submitter' = [submitter EXCEPT ![s] = v] /\ UNCHANGED <<kycStatus, reviewer>>
    BY <1>1 DEF UpsertData
  <2> DEFINE n == kycData[a] + 1
  <2>3. kycData' = [kycData EXCEPT ![a] = n] /\ unused' = unused
    BY <1>1 DEF UpsertData
  <2>4. n \in Nat
    BY DEF KycInv, KycTypeOK
  <2> HIDE DEF n
  <2>5. kycData' \in [Applicants -> Nat] /\ unused' \subseteq Applicants \X Nat \X Verdicts
    BY <2>3, <2>4 DEF KycInv, KycTypeOK
  <2> HIDE DEF v
  <2>6. QED BY <2>1, <2>2, <2>5, OneSubmits
<1>2. ASSUME StatusPending(s) PROVE KycInv'
  <2>1. submitter[s].who \in Applicants /\ submitter[s] \in Submission
    BY <1>2 DEF StatusPending, KycInv, KycTypeOK, AtWork
  <2>2. PICK a \in Applicants : a = submitter[s].who
    BY <2>1
  <2>3. StatusWritten(a, "pending")
    BY <1>2, <2>2 DEF StatusPending
  <2>4. SeenPending' /\ \A r \in Reviewers : reviewer'[r].at # "idle" =>
          reviewer'[r].who \in Applicants /\ reviewer'[r].verdict \in Verdicts
    BY <2>3, StatusIsWritten DEF KycStatuses
  <2>5. kycStatus' \in [Applicants -> KycStatuses] /\ reviewer' \in [Reviewers -> Review]
    BY <2>3, StatusIsWritten DEF KycStatuses
  <2> DEFINE v == [submitter[s] EXCEPT !.at = "mail"]
  <2>6. v \in Submission /\ v.who = a
    BY <2>1, <2>2 DEF Submission
  <2>7. submitter' = [submitter EXCEPT ![s] = v] /\ UNCHANGED <<kycData, unused>>
    BY <1>2, <2>1 DEF StatusPending, KycInv, KycTypeOK, Submission
  <2> HIDE DEF v
  <2>8. \A q \in Submitters : submitter'[q] = IF q = s THEN v ELSE submitter[q]
    BY <2>7 DEF KycInv, KycTypeOK
  <2>9. KycTypeOK'
    BY <2>5, <2>6, <2>7 DEF KycInv, KycTypeOK
  <2>10. AtWork'
    BY <2>4, <2>6, <2>8 DEF KycInv, AtWork
  <2>11. QED BY <2>4, <2>9, <2>10 DEF KycInv
<1>3. ASSUME MailReview(s) PROVE KycInv'
  <2>1. submitter[s].who \in Applicants
    BY <1>3 DEF MailReview, KycInv, AtWork
  <2>2. kycData[submitter[s].who] \in Nat
    BY <2>1 DEF KycInv, KycTypeOK
  <2>3. unused' \subseteq Applicants \X Nat \X Verdicts
    BY <1>3, <2>1, <2>2 DEF MailReview, KycInv, KycTypeOK
  <2>4. kycData' \in [Applicants -> Nat]
    BY <1>3 DEF MailReview, KycInv, KycTypeOK
  <2>5. QED BY <1>3, <2>3, <2>4, FreeTypes, OneSubmits DEF MailReview
<1>4. QED BY <1>1, <1>2, <1>3

LEMMA ReviewerSteps ==
  ASSUME KycInv, NEW r \in Reviewers,
         \/ \E a \in Applicants, v \in Verdicts : PanelDecide(r, a, v)
         \/ \E l \in unused : LinkOpen(r, l)
         \/ LinkUser(r) \/ ReviewStatus(r) \/ ReviewNotes(r) \/ LinkRetire(r)
  PROVE  KycInv'
<1>0. reviewer[r] \in Review
  BY DEF KycInv, KycTypeOK
<1>1. ASSUME NEW a \in Applicants, NEW d \in Verdicts, PanelDecide(r, a, d) PROVE KycInv'
  <2> DEFINE v == [Free EXCEPT !.at = "status", !.who = a, !.verdict = d]
  <2>1. v \in Review /\ v.who = a /\ v.verdict = d /\ ~ v.byLink
    BY DEF Free, Review
  <2>2. reviewer' = [reviewer EXCEPT ![r] = v] /\ UNCHANGED <<kycStatus, kycData, unused, submitter>>
    BY <1>1 DEF PanelDecide
  <2> HIDE DEF v
  <2>3. QED BY <2>1, <2>2, OneReviews
<1>2. ASSUME NEW l \in unused, LinkOpen(r, l) PROVE KycInv'
  <2> DEFINE v == [Free EXCEPT !.at = "user", !.who = l[1], !.verdict = l[3], !.byLink = TRUE]
  <2>1. l[1] \in Applicants /\ l[3] \in Verdicts
    BY DEF KycInv, KycTypeOK
  <2>2. v \in Review /\ v.who \in Applicants /\ v.verdict \in Verdicts /\ v.at = "user"
    BY <2>1 DEF Free, Review
  <2>3. reviewer' = [reviewer EXCEPT ![r] = v] /\ UNCHANGED <<kycStatus, kycData, unused, submitter>>
    BY <1>2 DEF LinkOpen
  <2> HIDE DEF v
  <2>4. QED BY <2>2, <2>3, OneReviews
<1>3. ASSUME LinkUser(r) PROVE KycInv'
  <2> DEFINE v == [reviewer[r] EXCEPT !.at = IF Awaits(reviewer[r].who) THEN "status" ELSE "retire"]
  <2>1. reviewer[r].who \in Applicants /\ reviewer[r].verdict \in Verdicts
    BY <1>3 DEF LinkUser, KycInv, AtWork
  <2>2. v \in Review /\ v.who \in Applicants /\ v.verdict \in Verdicts
    BY <1>0, <2>1 DEF Review
  <2>3. v.at = "status" => kycStatus[v.who] = "pending"
    BY <1>0 DEF Review, Awaits
  <2>4. reviewer' = [reviewer EXCEPT ![r] = v] /\ UNCHANGED <<kycStatus, kycData, unused, submitter>>
    BY <1>0, <1>3 DEF LinkUser, KycInv, KycTypeOK, Review
  <2> HIDE DEF v
  <2>5. QED BY <2>2, <2>3, <2>4, OneReviews
<1>4. ASSUME ReviewStatus(r) PROVE KycInv'
  <2>1. reviewer[r].who \in Applicants /\ reviewer[r].verdict \in Verdicts
    BY <1>4 DEF ReviewStatus, KycInv, AtWork
  <2>2. PICK a \in Applicants : a = reviewer[r].who
    BY <2>1
  <2> DEFINE mine == [reviewer[r] EXCEPT !.at = "notes", !.raced = FALSE]
  <2>3. mine \in Review /\ mine.who = a /\ mine.verdict \in Verdicts /\ mine.at = "notes"
    BY <1>0, <2>1, <2>2 DEF Review
  <2>4. /\ kycStatus' = [kycStatus EXCEPT ![a] = reviewer[r].verdict]
        /\ reviewer' = [q \in Reviewers |-> IF q = r THEN mine
             ELSE IF reviewer[q].at = "status" /\ reviewer[q].who = a
             THEN [reviewer[q] EXCEPT !.raced = TRUE] ELSE reviewer[q]]
        /\ UNCHANGED <<kycData, unused, submitter>>
    BY <1>4, <2>2 DEF ReviewStatus
  <2> HIDE DEF mine
  <2>5. kycStatus' \in [Applicants -> KycStatuses]
    BY <2>1, <2>4 DEF KycInv, KycTypeOK, KycStatuses
  <2>6. ASSUME NEW q \in Reviewers
        PROVE  /\ reviewer'[q] \in Review
               /\ reviewer'[q].at # "idle" =>
                    reviewer'[q].who \in Applicants /\ reviewer'[q].verdict \in Verdicts
               /\ reviewer'[q].at = "status" /\ reviewer'[q].byLink /\ ~ reviewer'[q].raced
                    => kycStatus'[reviewer'[q].who] = "pending"
    <3> DEFINE v == reviewer[q]
    <3>1. /\ v \in Review /\ (v.at # "idle" => v.who \in Applicants /\ v.verdict \in Verdicts)
          /\ (v.at = "status" /\ v.byLink /\ ~ v.raced => kycStatus[v.who] = "pending")
      BY DEF KycInv, KycTypeOK, AtWork, SeenPending
    <3>2. reviewer'[q] = IF q = r THEN mine ELSE
            IF v.at = "status" /\ v.who = a THEN [v EXCEPT !.raced = TRUE] ELSE v
      BY <2>4
    <3>3. \A b \in Applicants : b # a => kycStatus'[b] = kycStatus[b]
      BY <2>4 DEF KycInv, KycTypeOK
    <3> HIDE DEF v
    <3>4. CASE q = r
      BY <2>3, <3>2, <3>4
    <3>5. CASE q # r /\ v.at = "status" /\ v.who = a
      BY <3>1, <3>2, <3>5 DEF Review
    <3>6. CASE q # r /\ ~ (v.at = "status" /\ v.who = a)
      BY <3>1, <3>2, <3>3, <3>6 DEF Review
    <3>7. QED BY <3>4, <3>5, <3>6
  <2>7. reviewer' \in [Reviewers -> Review]
    BY <2>4, <2>6
  <2>8. KycTypeOK'
    BY <2>4, <2>5, <2>7 DEF KycInv, KycTypeOK
  <2>9. AtWork'
    BY <2>4, <2>6 DEF KycInv, AtWork
  <2>10. SeenPending'
    BY <2>6 DEF SeenPending
  <2>11. QED BY <2>8, <2>9, <2>10 DEF KycInv
<1>5. ASSUME ReviewNotes(r) PROVE KycInv'
  <2>1. reviewer[r].who \in Applicants /\ reviewer[r].verdict \in Verdicts
    BY <1>5 DEF ReviewNotes, KycInv, AtWork
  <2> DEFINE v == IF reviewer[r].byLink THEN [reviewer[r] EXCEPT !.at = "retire"] ELSE Free
  <2>2. v \in Review /\ (v.at # "idle" => v.who \in Applicants /\ v.verdict \in Verdicts)
        /\ v.at # "status"
    BY <1>0, <2>1, FreeTypes DEF Review
  <2>3. reviewer' = [reviewer EXCEPT ![r] = v] /\ UNCHANGED <<kycStatus, kycData, unused, submitter>>
    BY <1>5 DEF ReviewNotes, KycInv, KycTypeOK
  <2> HIDE DEF v
  <2>4. QED BY <2>2, <2>3, OneReviews
<1>6. ASSUME LinkRetire(r) PROVE KycInv'
  BY <1>6, FreeTypes, OneReviews DEF LinkRetire
<1>7. QED BY <1>1, <1>2, <1>3, <1>4, <1>5, <1>6

LEMMA StepKyc == KycInv /\ [KycNext]_kycVars => KycInv'
<1> SUFFICES ASSUME KycInv, [KycNext]_kycVars PROVE KycInv'
  OBVIOUS
<1>1. CASE UNCHANGED kycVars
  BY <1>1 DEF kycVars, KycInv, KycTypeOK, AtWork, SeenPending
<1>2. ASSUME NEW l \in unused, LinkExpire(l) PROVE KycInv'
  BY <1>2 DEF LinkExpire, KycInv, KycTypeOK, AtWork, SeenPending
<1>3. ASSUME KycFail PROVE KycInv'
  <2>1. ASSUME NEW s \in Submitters, submitter' = [submitter EXCEPT ![s] = Free], UNCHANGED reviewer
        PROVE  KycInv'
    <3>1. kycData' \in [Applicants -> Nat] /\ unused' \subseteq Applicants \X Nat \X Verdicts
      BY <1>3 DEF KycFail, KycInv, KycTypeOK
    <3>2. QED BY <1>3, <2>1, <3>1, FreeTypes, OneSubmits DEF KycFail
  <2>2. ASSUME NEW r \in Reviewers, reviewer' = [reviewer EXCEPT ![r] = Free], UNCHANGED submitter
        PROVE  KycInv'
    BY <1>3, <2>2, FreeTypes, OneReviews DEF KycFail
  <2>3. QED BY <1>3, <2>1, <2>2 DEF KycFail
<1>4. QED BY <1>1, <1>2, <1>3, SubmitterSteps, ReviewerSteps DEF KycNext

(***************************************************************************)
(* A mailed link decides only what is still pending, whether the decision  *)
(* before was made by a link or in the panel, unless another statement on  *)
(* the status fell between its reading and its writing.                    *)
(***************************************************************************)
THEOREM LinksDecideWhatIsPending == KycSpec => LinksDecidePending
<1>1. ASSUME KycInv, NEW r \in Reviewers,
             reviewer[r].at = "status", reviewer'[r].at = "notes", reviewer[r].byLink
      PROVE  kycStatus[reviewer[r].who] = "pending" \/ reviewer[r].raced
  BY <1>1 DEF KycInv, SeenPending
<1>2. KycInv /\ [KycNext]_kycVars =>
        [\A r \in Reviewers :
           reviewer[r].at = "status" /\ reviewer'[r].at = "notes" /\ reviewer[r].byLink
             => kycStatus[reviewer[r].who] = "pending" \/ reviewer[r].raced]_kycVars
  BY <1>1
<1>3. QED BY <1>2, InitKyc, StepKyc, PTL DEF KycSpec, LinksDecidePending
=============================================================================
