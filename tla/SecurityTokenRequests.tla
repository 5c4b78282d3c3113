----------------------- MODULE SecurityTokenRequests -----------------------
(***************************************************************************)
(* Requests to deploy a security token (routes/securityTokenRequests.ts).  *)
(* The handlers of /submit and /action/:token make the same statements, in *)
(* the same order, as those of mint requests, on tables of their own; a    *)
(* deployment is not reported back, so there is no third handler.          *)
(***************************************************************************)
EXTENDS Naturals, FiniteSets

CONSTANTS
  Users, Configs,              \* who asks, and for which token (the fingerprint)
  Submits, Clicks,             \* the handlers of /submit and /action
  Nothing,                     \* null
  MaxRows, MaxCrashes          \* bounds: requests, restarts

VARIABLES
  applications,                \* SecurityTokenApprovalRequest, by id
  tokens, lapsed, received,    \* its action tokens, those that expired, those mailed
  applying, deciding,          \* the handlers' progress and locals
  restarts, halted             \* restarts, the requests whose submission broke off

deployVars == <<applications, tokens, lapsed, received, applying, deciding, restarts, halted>>

Flow == INSTANCE MintApproval WITH
  requests <- applications, links <- tokens, expired <- lapsed, mailed <- received,
  submit <- applying, click <- deciding, crashes <- restarts, broken <- halted,
  Marks <- {}, mark <- <<>>, Txs <- {}, MintOf <- <<>>

DeployInit == Flow!Init

DeploySubmit(s) == Flow!SubmitStep(s)

\* Variant: the links are still looked up by their expiry alone.
DeployClickUnchecked(c) ==
  \/ \E r \in Flow!Rows, a \in Flow!Actions :
       /\ deciding[c].phase = "idle" /\ Flow!UsableUnlessExpired(r, a)
       /\ deciding' = [deciding EXCEPT ![c] = [phase |-> "apply", row |-> r, action |-> a]]
       /\ UNCHANGED <<applications, tokens, lapsed, received, applying, restarts, halted>>
  \/ Flow!ClickApply(c)

DeployClick(c) == Flow!ClickStep(c)

DeployNext ==
  \/ \E s \in Submits : DeploySubmit(s)
  \/ \E c \in Clicks : DeployClick(c)
  \/ \E r \in Flow!Rows : Flow!Expire(r)
  \/ Flow!Crash

DeploySpec == DeployInit /\ [][DeployNext]_deployVars

\* The handlers implement the abstract approval: only decisions that were taken
\* while the request was pending are written, and nothing reopens a request.
Reviewed == INSTANCE Approval WITH
  Requests <- Flow!Rows,
  status <- [r \in Flow!Rows |-> IF applications[r].status = "deleted" THEN "withdrawn"
                                 ELSE applications[r].status],
  taken <- [r \in Flow!Rows |-> {Flow!Decision(deciding[c].action) :
              c \in {k \in Clicks : deciding[k].phase = "apply" /\ deciding[k].row = r}}]

DeployImplementsApproval == Reviewed!Spec
=============================================================================
