------------------------------- MODULE Sums -------------------------------
(* The sum of the values of a function over a finite set.                  *)
EXTENDS Integers, FiniteSets, FiniteSetsExt

SumOver(f, S) == MapThenSumSet(LAMBDA x : f[x], S)
=============================================================================
