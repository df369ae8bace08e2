--------------------------------- MODULE Sums ---------------------------------
(***************************************************************************)
(* The sum of a function's values, which are natural numbers: the number   *)
(* of units they stand for.  A fold would be shorter, but nothing can be   *)
(* proved of what a recursive definition returns.                          *)
(***************************************************************************)
EXTENDS Integers, FiniteSets

Units(f) == UNION {{x} \X (1..f[x]) : x \in DOMAIN f}
Total(f) == Cardinality(Units(f))
=============================================================================
