---------------------------- MODULE MCApprovals ----------------------------
(* Small instances of the three desks of the backend: mint requests,       *)
(* requests to deploy a security token, and identity checks.  They share   *)
(* no table, so a behaviour is one of them, and nothing happens at the     *)
(* other two.                                                              *)
EXTENDS MintApproval, KycReview, TLC

CONSTANTS ann, house, ship, tx1, s1, s2, c1, c2, m1, m2, null

VARIABLES desk, applications, tokens, lapsed, received, applying, deciding, restarts, halted

INSTANCE SecurityTokenRequests

builds == <<applications, tokens, lapsed, received, applying, deciding, restarts, halted>>

\* The transaction minted a house.
SameToken == [t \in Txs |-> house]

DesksInit ==
  /\ desk \in {"mint", "deploy", "kyc"}
  /\ Init /\ DeployInit /\ KycInit

DesksNext ==
  /\ UNCHANGED desk
  /\ \/ desk = "mint" /\ Next /\ UNCHANGED <<builds, kycVars>>
     \/ desk = "deploy" /\ DeployNext /\ UNCHANGED <<vars, kycVars>>
     \/ desk = "kyc" /\ KycNext /\ UNCHANGED <<vars, builds>>

DesksSpec == DesksInit /\ [][DesksNext]_<<desk, vars, builds, kycVars>>

Alike == Permutations({s1, s2}) \cup Permutations({c1, c2}) \cup Permutations({m1, m2})
=============================================================================
