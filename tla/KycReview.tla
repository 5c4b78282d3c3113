----------------------------- MODULE KycReview -----------------------------
(***************************************************************************)
(* Identity checks (services/kyc.ts, routes/kyc.ts, routes/admin.ts): an   *)
(* applicant submits data, and an administrator approves or rejects them   *)
(* in the admin panel or by a link that was mailed.  The status is a field *)
(* of the user and the review of the data, and each is written by a        *)
(* statement of its own; nothing of it is a transaction.                   *)
(***************************************************************************)
EXTENDS Naturals

CONSTANTS
  Applicants,
  Submitters, Reviewers,       \* handlers of a submission and of a decision
  NoOne,                       \* an applicant that is none
  MaxSubmissions               \* bound: submissions of an applicant

Verdicts == {"approved", "rejected"}

VARIABLES
  kycStatus,   \* the user's status
  kycData,     \* the submission on record, by its number; 0 if there is none
  notes,       \* reviewNotes: the verdict they speak of
  unused,      \* action tokens that reached an administrator
  submitter, reviewer

kycVars == <<kycStatus, kycData, notes, unused, submitter, reviewer>>

Free == [at |-> "idle", who |-> NoOne, verdict |-> "none", byLink |-> FALSE, raced |-> FALSE]

KycInit ==
  /\ kycStatus = [a \in Applicants |-> "not_submitted"]
  /\ kycData = [a \in Applicants |-> 0]
  /\ notes = [a \in Applicants |-> "none"]
  /\ unused = {}
  /\ submitter = [s \in Submitters |-> Free]
  /\ reviewer = [r \in Reviewers |-> Free]

-----------------------------------------------------------------------------
\* The status is written; reviewers who have read it have read what was before.
StatusWritten(a, status) ==
  /\ kycStatus' = [kycStatus EXCEPT ![a] = status]
  /\ reviewer' = [r \in Reviewers |->
       IF reviewer[r].at = "status" /\ reviewer[r].who = a
       THEN [reviewer[r] EXCEPT !.raced = TRUE] ELSE reviewer[r]]

(* submitKYC *)

\* The upsert leaves the notes of an earlier review.
UpsertData(s, a) ==
  /\ submitter[s].at = "idle" /\ kycData[a] < MaxSubmissions
  /\ kycData' = [kycData EXCEPT ![a] = @ + 1]
  /\ submitter' = [submitter EXCEPT ![s] = [Free EXCEPT !.at = "pending", !.who = a]]
  /\ UNCHANGED <<kycStatus, notes, unused, reviewer>>

StatusPending(s) ==
  /\ submitter[s].at = "pending"
  /\ StatusWritten(submitter[s].who, "pending")
  /\ submitter' = [submitter EXCEPT ![s].at = "mail"]
  /\ UNCHANGED <<kycData, notes, unused>>

\* sendKYCReviewEmail, which nobody waits for.
MailReview(s) ==
  /\ submitter[s].at = "mail"
  /\ unused' = unused \cup {<<submitter[s].who, kycData[submitter[s].who], v>> : v \in Verdicts}
  /\ submitter' = [submitter EXCEPT ![s] = Free]
  /\ UNCHANGED <<kycStatus, kycData, notes, reviewer>>

-----------------------------------------------------------------------------
(* The decision *)

\* PUT /kyc/:userId/approve and reject, for the submissions the panel lists,
\* whatever their status.
PanelDecide(r, a, v) ==
  /\ reviewer[r].at = "idle" /\ kycData[a] # 0
  /\ reviewer' = [reviewer EXCEPT ![r] = [Free EXCEPT !.at = "status", !.who = a, !.verdict = v]]
  /\ UNCHANGED <<kycStatus, kycData, notes, unused, submitter>>

\* POST /kyc/action/:token reads the token, and then the user.
LinkOpen(r, l) ==
  /\ reviewer[r].at = "idle" /\ l \in unused
  /\ reviewer' = [reviewer EXCEPT ![r] =
       [Free EXCEPT !.at = "user", !.who = l[1], !.verdict = l[3], !.byLink = TRUE]]
  /\ UNCHANGED <<kycStatus, kycData, notes, unused, submitter>>

\* Variant: a link may overrule a decision.
AwaitsUndecided(a) == TRUE

Awaits(a) == kycStatus[a] = "pending"

LinkUser(r) ==
  /\ reviewer[r].at = "user"
  /\ reviewer' = [reviewer EXCEPT ![r].at = IF Awaits(reviewer[r].who) THEN "status" ELSE "retire"]
  /\ UNCHANGED <<kycStatus, kycData, notes, unused, submitter>>

\* approveKYC and rejectKYC.
ReviewStatus(r) ==
  LET a == reviewer[r].who IN
  /\ reviewer[r].at = "status"
  /\ kycStatus' = [kycStatus EXCEPT ![a] = reviewer[r].verdict]
  /\ reviewer' = [q \in Reviewers |->
       IF q = r THEN [reviewer[r] EXCEPT !.at = "notes", !.raced = FALSE]
       ELSE IF reviewer[q].at = "status" /\ reviewer[q].who = a
       THEN [reviewer[q] EXCEPT !.raced = TRUE] ELSE reviewer[q]]
  /\ UNCHANGED <<kycData, notes, unused, submitter>>

ReviewNotes(r) ==
  /\ reviewer[r].at = "notes"
  /\ notes' = [notes EXCEPT ![reviewer[r].who] = reviewer[r].verdict]
  /\ reviewer' = [reviewer EXCEPT ![r] = IF @.byLink THEN [@ EXCEPT !.at = "retire"] ELSE Free]
  /\ UNCHANGED <<kycStatus, kycData, unused, submitter>>

\* All unused links of the applicant, those of a later submission too.
LinkRetire(r) ==
  /\ reviewer[r].at = "retire"
  /\ unused' = {l \in unused : l[1] # reviewer[r].who}
  /\ reviewer' = [reviewer EXCEPT ![r] = Free]
  /\ UNCHANGED <<kycStatus, kycData, notes, submitter>>

-----------------------------------------------------------------------------
LinkExpire(l) ==
  /\ l \in unused
  /\ unused' = unused \ {l}
  /\ UNCHANGED <<kycStatus, kycData, notes, submitter, reviewer>>

\* A statement or the mail fails, or the server restarts: the rest is not done.
KycFail ==
  /\ \/ \E s \in Submitters :
          /\ submitter[s].at # "idle" /\ submitter' = [submitter EXCEPT ![s] = Free]
          /\ UNCHANGED reviewer
     \/ \E r \in Reviewers :
          /\ reviewer[r].at # "idle" /\ reviewer' = [reviewer EXCEPT ![r] = Free]
          /\ UNCHANGED submitter
  /\ UNCHANGED <<kycStatus, kycData, notes, unused>>

KycNext ==
  \/ \E s \in Submitters :
       (\E a \in Applicants : UpsertData(s, a)) \/ StatusPending(s) \/ MailReview(s)
  \/ \E r \in Reviewers :
       \/ \E a \in Applicants, v \in Verdicts : PanelDecide(r, a, v)
       \/ \E l \in unused : LinkOpen(r, l)
       \/ LinkUser(r) \/ ReviewStatus(r) \/ ReviewNotes(r) \/ LinkRetire(r)
  \/ \E l \in unused : LinkExpire(l)
  \/ KycFail

KycSpec == KycInit /\ [][KycNext]_kycVars

-----------------------------------------------------------------------------
(* Properties *)

\* A mailed link decides only what is still pending ("No additional action was
\* applied"), whether the decision before was made by a link or in the panel,
\* unless another statement on the status fell between its reading and its
\* writing (POST /kyc/action/:token).
LinksDecidePending ==
  [][\A r \in Reviewers :
       reviewer[r].at = "status" /\ reviewer'[r].at = "notes" /\ reviewer[r].byLink
         => kycStatus[reviewer[r].who] = "pending" \/ reviewer[r].raced]_kycVars
=============================================================================
