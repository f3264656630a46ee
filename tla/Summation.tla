------------------------------- MODULE Summation -------------------------------
(* The sum of the values of a function with a finite domain: the totals of the  *)
(* ledgers (a balance, an advance, a bill's payments) are such sums. Kept apart *)
(* from the modules that use it so that what is proved of it is proved once.    *)
EXTENDS Integers, FiniteSetsExt

(* The values of f added up, 0 if there is none. *)
SumOver(f) == MapThenSumSet(LAMBDA x : f[x], DOMAIN f)
================================================================================
