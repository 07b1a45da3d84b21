-------------------------------- MODULE Sums --------------------------------
(* Sums of what a function has for the elements of a set, and of all it has; powers. *)
EXTENDS Integers, FiniteSets

Fcn == INSTANCE Functions

SumOver(v, S) == Fcn!SumFunctionOnSet(v, S)

SumAll(v) == SumOver(v, DOMAIN v)

\* Math.pow(2, n): what n bits tell apart.
TwoTo[n \in Nat] == IF n = 0 THEN 1 ELSE 2 * TwoTo[n - 1]
=============================================================================
