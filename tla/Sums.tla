-------------------------------- MODULE Sums --------------------------------
(***************************************************************************)
(* Totals over finite sets.  A contract promises things such as "the       *)
(* escrow covers every open order", which is a statement about a sum over  *)
(* a mapping.  Every module that needs such a total takes it from here, so *)
(* that the facts SumsProofs establishes once serve all of them.           *)
(***************************************************************************)
EXTENDS Integers, Folds

\* The element of S the fold takes next.
Pick(S) == CHOOSE x \in S : TRUE

\* The total of f over the finite set S.
SumOver(f, S) == MapThenFoldSet(LAMBDA x, y : x + y, 0, LAMBDA x : f[x], Pick, S)

=============================================================================
