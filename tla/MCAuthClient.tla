---------------------------- MODULE MCAuthClient ----------------------------
(* Small instances of authentication in a tab.                             *)
EXTENDS AuthClient, TLC

CONSTANTS prices, profile, null

TwoCalls == Permutations({prices, profile})
=============================================================================
