-------------------------------- MODULE Sums --------------------------------
(***************************************************************************)
(* The sum of a function over a finite set, and the facts about it that    *)
(* the accounting invariants rest on.                                      *)
(***************************************************************************)
EXTENDS FiniteSetsExt

\* The sum of f over S, S a subset of f's domain.
SumOver(f, S) == MapThenSumSet(LAMBDA x : f[x], S)
=============================================================================
