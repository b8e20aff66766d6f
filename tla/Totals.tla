------------------------------- MODULE Totals -------------------------------
(***************************************************************************)
(* The sum of the values of a function into the natural numbers, as the    *)
(* number of pairs of an argument and one of the numbers up to its value.  *)
(***************************************************************************)
EXTENDS Naturals, FiniteSets

Total(f) == Cardinality(UNION {{x} \X (1 .. f[x]) : x \in DOMAIN f})
=============================================================================
