--------------------------- MODULE MCAuthSessions ---------------------------
(* Small instances of the sessions of an account.                          *)
EXTENDS AuthSessions, TLC

CONSTANTS h1, h2, laptop, mail1, null

Alike == Permutations({h1, h2})
=============================================================================
