-------------------------- MODULE MCNavPublication --------------------------
(* Small instances of the publication of valuations.                       *)
EXTENDS NavPublication

CONSTANTS h1, h2
=============================================================================
