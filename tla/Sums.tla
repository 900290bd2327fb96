-------------------------------- MODULE Sums --------------------------------
(* The sum of a function whose values are natural numbers: it has as many  *)
(* units as there are pairs of an argument and a number up to its value.   *)
EXTENDS Integers, FiniteSets

Units(f) == UNION {{x} \X (1..f[x]) : x \in DOMAIN f}
Sum(f) == Cardinality(Units(f))
=============================================================================
