------------------------------ MODULE Approval ------------------------------
(***************************************************************************)
(* What the approval of requests promises to those who ask and to those    *)
(* who decide, whatever handlers, statements and mails bring it about      *)
(* (routes/mintRequests.ts, routes/securityTokenRequests.ts).              *)
(*                                                                         *)
(* A decision is taken while the request is pending, and written down      *)
(* later: between the two another decision may be taken, and written too.  *)
(* What was not taken in time is never written, a request is executed only *)
(* when it is approved, and nothing reopens one.                           *)
(***************************************************************************)
CONSTANTS Requests

Decisions == {"approved", "rejected"}

VARIABLES
  status,    \* where each request is
  taken      \* the decisions that were taken and are not written yet

vars == <<status, taken>>

Init ==
  /\ status = [r \in Requests |-> "none"]
  /\ taken = [r \in Requests |-> {}]

Open(r) == status[r] \notin {"none", "withdrawn"}

Ask(r) ==
  /\ status[r] = "none"
  /\ status' = [status EXCEPT ![r] = "pending"]
  /\ UNCHANGED taken

Take(r, d) ==
  /\ status[r] = "pending"
  /\ taken' = [taken EXCEPT ![r] = @ \cup {d}]
  /\ UNCHANGED status

\* The same decision may be in hand twice.
Settle(r, d) ==
  /\ Open(r) /\ d \in taken[r]
  /\ status' = [status EXCEPT ![r] = d]
  /\ taken' \in {taken, [taken EXCEPT ![r] = @ \ {d}]}

\* Decisions that were taken are lost, with a crash or with their request.
Forget ==
  /\ taken' \in [Requests -> SUBSET Decisions]
  /\ \A r \in Requests : taken'[r] \subseteq taken[r]
  /\ UNCHANGED status

Execute(r) ==
  /\ status[r] = "approved"
  /\ status' = [status EXCEPT ![r] = "executed"]
  /\ UNCHANGED taken

Withdraw(r) ==
  /\ Open(r)
  /\ status' = [status EXCEPT ![r] = "withdrawn"]
  /\ UNCHANGED taken

Next ==
  \/ \E r \in Requests :
       \/ Ask(r) \/ Execute(r) \/ Withdraw(r)
       \/ \E d \in Decisions : Take(r, d) \/ Settle(r, d)
  \/ Forget

Spec == Init /\ [][Next]_vars
=============================================================================
